---- MODULE Spec2Model ----
(***************************************************************************)
(* Model of the wordpress-sync orchestration core                          *)
(* (src/cli/wordpress_sync.py and the managers under src/cli/resources/).  *)
(*                                                                         *)
(* One behaviour is one invocation of WordPressSync.run(): argument and    *)
(* configuration choice (Init), the plan-only branch, environment          *)
(* validation, an optional DryRun pass of run_synchronization, the         *)
(* confirmation gate and the Live pass.  Every action is one call made by  *)
(* run() / run_synchronization() together with the glue around it.         *)
(*                                                                         *)
(* External commands are recorded by kind in `executed` in the order the   *)
(* code issues them; the outcome of a command (exit status, exception) is  *)
(* a nondeterministic choice of the environment.                           *)
(***************************************************************************)
EXTENDS Integers, Sequences, FiniteSets

\* Most external commands that may report failure within one invocation of run().
MaxFailures == 1

VARIABLES
    args,        \* parsed command line (parse_arguments)
    config,      \* the parts of the loaded configuration the pipeline reads
    env,         \* what the remote host allows the connecting users to do
    direction,   \* self.direction: "push" | "pull"
    dry_run,     \* self.dry_run (cleared by confirm_synchronization)
    pc,          \* position inside run() / run_synchronization()
    callsite,    \* which call of run_synchronization in run() is active
    db_file,     \* local db_file of run_synchronization: "none" | "artifact"
    calls,       \* manager methods invoked by the current run_synchronization call
    executed,    \* external commands / filesystem mutations really performed
    commands,    \* command_collector.commands (plan-only records)
    result,      \* value returned by the last run_synchronization: "none" | "True" | "False"
    exit_code,   \* value returned by run(): 0 | 1, and -1 while run() has not returned
    failures,    \* number of commands that reported failure so far
    failed,      \* pipeline steps of the current pass whose manager reported failure
    raised,      \* step of the current pass at which an Exception escaped, or "none"
    interrupted, \* a KeyboardInterrupt reached run()
    prompts,     \* reads from the operator (input(), getpass()), in order
    cached_password,  \* password_manager._sudo_password holds an entered password
    backups,     \* the backup root on disk: `latest`, the entries of `archives`, the clock
    sudo,        \* the execute_as_sudo_user call under way: position, locals, commands run
    paths,       \* backup.directory, paths.live / paths.local and the backup paths got from them
    rsync_proc   \* the rsync subprocess of transfer_files, its pipes, readers and caller

vars == <<args, config, env, direction, dry_run, pc, callsite, db_file, calls,
          executed, commands, result, exit_code, failures, failed, raised,
          interrupted, prompts, cached_password, backups, sudo, paths, rsync_proc>>

-----------------------------------------------------------------------------
(* Command kinds.                                                          *)

\* Commands that change a site, a database or a file tree.
MutatingOps ==
    { "maint_on_local", "maint_on_remote", "maint_file_local", "maint_file_remote",
      "maint_off_local", "maint_off_remote",
      "db_export", "scp_db", "db_backup", "db_reset", "db_import",
      "search_replace", "cache_flush", "plugin_activate", "plugin_deactivate",
      "cleanup_delete", "rsync", "chown", "chmod_dirs", "chmod_files",
      "mkdir_db_temp_local", "mkdir_db_temp_remote", "mkdir_db_backup",
      "mkdir_latest", "mkdir_archives", "mkdir_backup_dir",
      "mv_latest_to_archive", "rm_latest",
      "rm_local_db_file", "rm_remote_db_file", "rm_remote_db_temp" }

\* Commands that only inspect (probes, listings, checks) and plan annotations.
ReadOnlyOps ==
    { "ssh_test", "wp_info", "wp_is_installed_local", "wp_is_installed_remote",
      "count_latest", "list_latest", "probe_writable", "probe_sudo", "probe_backup_dir",
      "db_tables", "table_prefix", "verify_checksums", "validation_checks",
      "rsync_dry_run", "note" }

IsMutating(op) == op \in MutatingOps

RECURSIVE Filter(_, _)
Filter(s, S) ==
    IF s = <<>> THEN <<>>
    ELSE IF Head(s) \in S THEN <<Head(s)>> \o Filter(Tail(s), S)
         ELSE Filter(Tail(s), S)

Range(s) == { s[i] : i \in 1..Len(s) }

Call(fn, dry) == [fn |-> fn, dry |-> dry]

CalledFns == { calls[i].fn : i \in 1..Len(calls) }

Count(fn) == Cardinality({ i \in 1..Len(calls) : calls[i].fn = fn })

-----------------------------------------------------------------------------
(* Derived flags of run_synchronization.                                   *)

db_only == args.db_only

files_only == args.files_only

\* The pass in progress really mutates (neither plan-only nor dry run).
Live == ~args.command_only /\ ~dry_run

-----------------------------------------------------------------------------
(* Plan-only branch of run_synchronization (--command-only): the commands  *)
(* recorded through self.command_collector, section by section.            *)

\* "Environment Validation": SSH test and, unless --skip-wp-check, the WP checks.
PlanEnvironmentValidation ==
    <<"ssh_test">> \o
    (IF args.skip_wp_check THEN <<>>
     ELSE <<"wp_info", "wp_is_installed_local", "wp_is_installed_remote">>)

\* "Directory Setup": mkdir -p of the local and the remote db temp directory.
PlanDirectorySetup == <<"mkdir_db_temp_local", "mkdir_db_temp_remote">>

\* "Pre-sync Cleanup": one find -delete per configured cleanup pattern.
PlanPreSyncCleanup ==
    IF config.cleanup_files THEN <<"cleanup_delete">> ELSE <<>>

\* "Maintenance Mode": wp activate on both sides and the .maintenance alternative.
PlanMaintenanceMode ==
    <<"maint_on_local", "maint_on_remote", "maint_file_local", "maint_file_remote">>

\* "Database Operations": export, copy, optional backup, reset, import.
PlanDatabaseOperations ==
    IF files_only THEN <<>>
    ELSE <<"db_export", "scp_db">> \o
         (IF config.db_backup_enabled THEN <<"mkdir_db_backup", "db_backup">> ELSE <<>>) \o
         <<"db_reset", "db_import">>

\* The permission commands read config["ssh"]["sudo"]["user"]: KeyError without it.
PlanFileTransferRaises == ~db_only /\ direction = "push" /\ ~config.sudo_user

\* "File Transfer": the rsync line and, on push, chown / chmod (ownership is
\* always present after ConfigManager._set_defaults).
PlanFileTransfer ==
    IF db_only THEN <<>>
    ELSE <<"note", "rsync">> \o
         (IF direction = "push" /\ config.sudo_user
          THEN <<"chown", "chmod_dirs", "chmod_files">> ELSE <<>>)

\* "URL Replacement": four search-replace commands and the cache flush; this is
\* the only place that binds target_path and is_remote.
PlanURLReplacement ==
    IF files_only THEN <<>>
    ELSE <<"search_replace", "search_replace", "search_replace", "search_replace",
           "cache_flush">>

\* The plugin commands format target_path, unbound when files_only.
PlanPluginManagementRaises == config.plugins /\ files_only

\* "Plugin Management": recorded whenever the configuration lists plugins.
PlanPluginManagement ==
    IF config.plugins /\ ~files_only THEN <<"plugin_activate", "plugin_deactivate">>
    ELSE <<>>

\* The checksum command formats target_path, unbound when files_only.
PlanValidationRaises == ~args.skip_validation /\ files_only

\* "Validation": table checks unless files_only, checksum check unless db_only.
PlanValidation ==
    IF args.skip_validation \/ files_only THEN <<>>
    ELSE <<"db_tables", "table_prefix">> \o
         (IF db_only THEN <<>> ELSE <<"verify_checksums">>)

\* "Maintenance Mode Deactivation".
PlanMaintenanceDeactivation == <<"maint_off_local", "maint_off_remote", "note">>

\* _get_latest_backup_path() raises when the backup root cannot be resolved.
PlanBackupManagementRaises == ~args.no_backup /\ ~config.backup_root_resolvable

\* "Backup Management": check, mkdir, note, list and rm -rf of `latest`.
PlanBackupManagement ==
    IF args.no_backup \/ ~config.backup_root_resolvable THEN <<>>
    ELSE <<"count_latest", "mkdir_latest", "note", "list_latest", "rm_latest">>

\* An exception escapes the plan-only branch.
PlanRaises ==
    \/ PlanFileTransferRaises
    \/ PlanPluginManagementRaises
    \/ PlanValidationRaises
    \/ PlanBackupManagementRaises

\* The records collected by the plan-only branch up to its return or its raise.
PlanCommands ==
    LET upToMaintenance == PlanEnvironmentValidation \o PlanDirectorySetup \o
                           PlanPreSyncCleanup \o PlanMaintenanceMode
        upToFiles       == upToMaintenance \o PlanDatabaseOperations \o PlanFileTransfer
        upToPlugins     == upToFiles \o PlanURLReplacement
        upToValidation  == upToPlugins \o PlanPluginManagement
        upToBackup      == upToValidation \o PlanValidation \o PlanMaintenanceDeactivation
    IN  IF PlanFileTransferRaises THEN upToFiles
        ELSE IF PlanPluginManagementRaises THEN upToPlugins
        ELSE IF PlanValidationRaises THEN upToValidation
        ELSE IF PlanBackupManagementRaises THEN upToBackup
        ELSE upToBackup \o PlanBackupManagement

-----------------------------------------------------------------------------
(* Initial state: after parse_arguments and initialize_managers.           *)

ArgsSpace ==
    { a \in [ command_only : BOOLEAN, no_dry_run : BOOLEAN, skip_validation : BOOLEAN,
              skip_wp_check : BOOLEAN, no_backup : BOOLEAN, skip_final_cleanup : BOOLEAN,
              db_only : BOOLEAN, files_only : BOOLEAN, non_interactive : BOOLEAN ] :
        \* --db-only and --files-only are mutually exclusive (argparse group)
        ~(a.db_only /\ a.files_only) }

\* validation_enabled:      validation.enabled (a ValidationManager is built only
\*                          when it is true and --skip-validation is absent)
\* plugins:                 activate / deactivate lists exist for the target
\* sudo_user:               ssh.sudo.user is configured
\* backup_root_resolvable:  _resolve_backup_root() returns (it raises TypeError
\*                          when the per-direction entry of backup.directory is null)
\* db_backup_enabled:       backup.database.enabled
\* cleanup_files:           rsync.cleanup_files lists a pattern
ConfigSpace ==
    [ validation_enabled : BOOLEAN, plugins : BOOLEAN, sudo_user : BOOLEAN,
      backup_root_resolvable : BOOLEAN, db_backup_enabled : BOOLEAN,
      cleanup_files : BOOLEAN ]

\* An option or setting that an invocation never reads is held at one value, so
\* that invocations differing only in such a value are explored once:
\*   plan-only reads neither the dry-run, confirmation and final-review options
\*   nor validation.enabled; --no-backup reads no backup path; --skip-validation
\*   never touches the validation manager; --files-only never reaches the
\*   database backup (nor, outside plan-only, the plugin lists); the permission
\*   commands are issued on push without --db-only only; and outside plan-only
\*   --db-only never reaches the pre-sync deletion.
Canonical(a, c, d) ==
    /\ a.command_only =>
          ~a.no_dry_run /\ ~a.non_interactive /\ ~a.skip_final_cleanup /\ c.validation_enabled
    /\ a.no_backup => ~a.skip_final_cleanup /\ c.backup_root_resolvable
    /\ a.skip_validation => c.validation_enabled
    /\ a.files_only => ~c.db_backup_enabled
    /\ (a.db_only \/ d = "pull") => c.sudo_user
    /\ (~a.command_only /\ a.db_only) => ~c.cleanup_files
    /\ (~a.command_only /\ a.files_only) => ~c.plugins

\* The remote host, as far as elevation goes:
\* direct:    the elevating commands succeed without sudo (the live path is
\*            writable by the SSH user, or the dedicated sudo user may run them)
\* nopasswd:  `sudo -n true` succeeds, i.e. sudo asks for no password
\* Only a Live push that transfers files issues such commands, and the sudo
\* probe is not reached when a dedicated sudo user succeeds directly.
EnvSpace(a, c, d) ==
    { e \in [direct : BOOLEAN, nopasswd : BOOLEAN] :
        /\ (a.command_only \/ a.db_only \/ d = "pull") => (e.direct /\ e.nopasswd)
        /\ (e.direct /\ c.sudo_user) => e.nopasswd }

\* Timestamps time.strftime(archive_format) can yield while backups are handled.
MaxClock == 2

\* Files the mirroring tool can set aside in `latest`.
Files == {"index.php", "style.css"}

\* A directory that does not exist.
NoDir == [present |-> FALSE, files |-> {}]

\* An entry <archives>/<timestamp>: the files moved there and, when `latest`
\* was moved into the existing entry, its subdirectory named after `latest`.
NoEntry == [present |-> FALSE, files |-> {}, nested |-> NoDir]

\* A backup root on which nothing was backed up yet.
NoBackups ==
    [latest |-> NoDir, archives |-> [t \in 0..MaxClock |-> NoEntry], clock |-> 0]

\* Calls of execute_as_sudo_user one caller makes in a row (set_permissions
\* makes three).
MaxCalls == 3

\* No call of execute_as_sudo_user is under way; --sudo-password was not given.
NoCall ==
    [pc |-> "idle", supplied |-> FALSE, sudo_password |-> FALSE, tried |-> <<>>,
     result |-> "none", calls |-> 0]

\* transfer_files() has not created its subprocess.
NoProcess ==
    [main |-> "idle", process |-> "none", returncode |-> 0,
     todo |-> [stdout |-> 0, stderr |-> 0], pipe |-> [stdout |-> 0, stderr |-> 0],
     lines |-> [stdout |-> 0, stderr |-> 0],
     thread |-> [stdout |-> "unstarted", stderr |-> "unstarted"],
     closed |-> FALSE, returned |-> <<>>]

\* A path that has not been asked for yet.
NoPath == <<"unset">>

\* The configuration of a run that never looks at its backup paths.
NoPaths ==
    [directory |-> [kind |-> "legacy", local |-> <<>>, remote |-> <<>>],
     live |-> <<>>, local |-> <<>>, latest |-> NoPath, archives |-> NoPath]

\* A remote host on which every elevating command runs without a password.
Permissive == [direct |-> TRUE, nopasswd |-> TRUE]

\* State of a fresh WordPressSync after parse_arguments() and
\* initialize_managers() for the invocation (a, c, d) against remote host e.
\* no_dry_run stands for --no-dry-run as well as for rsync.dry_run: false in
\* the configuration, which clear self.dry_run alike.
Started(a, c, d, e) ==
    /\ args = a
    /\ config = c
    /\ direction = d
    /\ env = e
    /\ dry_run = ~a.no_dry_run
    /\ pc = "start"
    /\ callsite = "none"
    /\ db_file = "none"
    /\ calls = <<>>
    /\ executed = <<>>
    /\ commands = <<>>
    /\ result = "none"
    /\ exit_code = -1
    /\ failures = 0
    /\ failed = {}
    /\ raised = "none"
    /\ interrupted = FALSE
    /\ prompts = <<>>
    /\ cached_password = FALSE

\* The full synchronization with backups, validation and final review, and a
\* configuration without optional parts.
DefaultOptions(a, c) ==
    /\ ~a.command_only /\ ~a.db_only /\ ~a.files_only /\ ~a.no_backup
    /\ ~a.skip_validation /\ ~a.skip_final_cleanup
    /\ c.validation_enabled /\ c.backup_root_resolvable /\ c.sudo_user
    /\ ~c.db_backup_enabled /\ ~c.plugins /\ ~c.cleanup_files

\* Every invocation, against a permissive remote host.  --skip-wp-check, which
\* only removes the two installation checks from validate_environment(), is
\* combined with the default options alone; database backups, which only
\* reset_database() reads, are combined with configurations without plugin
\* lists and cleanup patterns.
Init ==
    \E a \in ArgsSpace, c \in ConfigSpace, d \in {"push", "pull"} :
       /\ Canonical(a, c, d)
       /\ a.skip_wp_check => DefaultOptions(a, c)
       /\ c.db_backup_enabled => ~c.plugins /\ ~c.cleanup_files
       /\ Started(a, c, d, Permissive)
       /\ backups = NoBackups
       /\ sudo = NoCall
       /\ paths = NoPaths
       /\ rsync_proc = NoProcess

\* Invocations for the study of elevation: every remote host, with the backup
\* root resolvable and without database backup, plugin lists, installation
\* check skipping or final-review skipping.
InitElevation ==
    \E a \in ArgsSpace, c \in ConfigSpace, d \in {"push", "pull"} :
       \E e \in EnvSpace(a, c, d) :
          /\ Canonical(a, c, d)
          /\ ~a.skip_wp_check /\ ~a.skip_final_cleanup
          /\ c.backup_root_resolvable /\ ~c.db_backup_enabled /\ ~c.plugins
          /\ Started(a, c, d, e)
          /\ backups = NoBackups
          /\ sudo = NoCall
          /\ paths = NoPaths
          /\ rsync_proc = NoProcess

-----------------------------------------------------------------------------
(* Glue of run(): entering and leaving run_synchronization.                *)

\* A command may report failure only while the failure budget lasts.
CanFail == failures < MaxFailures

\* run() calls run_synchronization() from `site`.
BeginPass(site) ==
    /\ callsite' = site
    /\ pc' = IF site = "command_only" THEN "plan" ELSE "preflight"
    /\ calls' = <<>>
    /\ failed' = {}
    /\ raised' = "none"
    /\ db_file' = "none"
    /\ result' = "none"

\* Variant of run() that reaches the confirmation gate after any dry-run pass,
\* whatever it returned.
Return_unchecked(value) ==
    /\ result' = IF value THEN "True" ELSE "False"
    /\ IF callsite = "dry_run"
       THEN pc' = "confirm" /\ exit_code' = exit_code
       ELSE pc' = "exit" /\ exit_code' = (IF value THEN 0 ELSE 1)

\* run_synchronization() returns `value`; run() turns it into an exit code, or
\* moves on to the confirmation gate after a successful dry run.
Return(value) ==
    /\ result' = IF value THEN "True" ELSE "False"
    /\ IF callsite = "dry_run" /\ value
       THEN pc' = "confirm" /\ exit_code' = exit_code
       ELSE pc' = "exit" /\ exit_code' = (IF value THEN 0 ELSE 1)

\* The step reads nothing from the operator.
NoPrompt == UNCHANGED <<prompts, cached_password>>

\* The step blocks on input() with prompt p when `asks` holds.
Ask(asks, p) ==
    /\ prompts' = IF asks THEN Append(prompts, p) ELSE prompts
    /\ cached_password' = cached_password

\* run(): the --command-only shortcut, else environment validation.
run ==
    /\ pc = "start"
    /\ IF args.command_only
       THEN BeginPass("command_only")
       ELSE /\ pc' = "validate_environment"
            /\ UNCHANGED <<callsite, calls, failed, raised, db_file, result>>
    /\ UNCHANGED <<args, config, env, direction, dry_run, executed, commands, exit_code,
                   failures, interrupted, prompts, cached_password, backups, sudo, paths, rsync_proc>>

\* Variant of run() that goes on to run_synchronization() after a failed
\* validate_environment().
validate_environment_ignored ==
    /\ pc = "validate_environment"
    /\ \E outcome \in {"ok", "no_wp_cli", "no_ssh", "not_installed"} :
         LET checks == IF args.skip_wp_check THEN <<>>
                       ELSE <<"wp_is_installed_local", "wp_is_installed_remote">>
             done == CASE outcome = "no_wp_cli" -> <<"wp_info">>
                       [] outcome = "no_ssh" -> <<"wp_info", "ssh_test">>
                       [] OTHER -> <<"wp_info", "ssh_test">> \o checks
         IN /\ outcome = "not_installed" => ~args.skip_wp_check
            /\ executed' = executed \o done
            /\ IF outcome = "ok"
               THEN /\ BeginPass(IF dry_run THEN "dry_run" ELSE "actual")
                    /\ exit_code' = exit_code
               ELSE /\ callsite' = IF dry_run THEN "dry_run" ELSE "actual"
                    /\ pc' = "preflight"
                    /\ failed' = {"environment"}
                    /\ UNCHANGED <<calls, raised, db_file, result, exit_code>>
    /\ UNCHANGED <<args, config, env, direction, dry_run, commands, failures, interrupted,
                   prompts, cached_password, backups, sudo, paths, rsync_proc>>

\* validate_environment(): wp --info, the SSH test, the installation checks; on
\* success run() starts the dry-run pass or, without dry run, the actual pass.
validate_environment ==
    /\ pc = "validate_environment"
    /\ \E outcome \in {"ok", "no_wp_cli", "no_ssh", "not_installed"} :
         LET checks == IF args.skip_wp_check THEN <<>>
                       ELSE <<"wp_is_installed_local", "wp_is_installed_remote">>
             done == CASE outcome = "no_wp_cli" -> <<"wp_info">>
                       [] outcome = "no_ssh" -> <<"wp_info", "ssh_test">>
                       [] OTHER -> <<"wp_info", "ssh_test">> \o checks
         IN /\ outcome = "not_installed" => ~args.skip_wp_check
            /\ executed' = executed \o done
            /\ IF outcome = "ok"
               THEN /\ BeginPass(IF dry_run THEN "dry_run" ELSE "actual")
                    /\ exit_code' = exit_code
               ELSE /\ pc' = "exit"
                    /\ exit_code' = 1
                    /\ failed' = {"environment"}
                    /\ UNCHANGED <<callsite, calls, raised, db_file, result>>
    /\ UNCHANGED <<args, config, env, direction, dry_run, commands, failures, interrupted,
                   prompts, cached_password, backups, sudo, paths, rsync_proc>>

\* Variant of confirm_synchronization() in which non-interactive mode goes on
\* to the actual pass.
confirm_synchronization_unattended ==
    /\ pc = "confirm"
    /\ \E response \in (IF args.non_interactive THEN {"yes"} ELSE {"yes", "no"}) :
         IF response = "yes"
         THEN /\ dry_run' = FALSE
              /\ BeginPass("actual")
              /\ exit_code' = exit_code
         ELSE /\ pc' = "exit"
              /\ exit_code' = 0
              /\ UNCHANGED <<dry_run, callsite, calls, failed, raised, db_file, result>>
    /\ Ask(~args.non_interactive, "proceed")
    /\ UNCHANGED <<args, config, env, direction, executed, commands, failures, interrupted,
                   backups, sudo, paths, rsync_proc>>

\* confirm_synchronization() after a successful dry run: non-interactive mode
\* declines, the operator answers yes (dry_run is cleared, the actual pass
\* starts) or no (exit 0).
confirm_synchronization ==
    /\ pc = "confirm"
    /\ \E response \in (IF args.non_interactive THEN {"no"} ELSE {"yes", "no"}) :
         IF response = "yes"
         THEN /\ dry_run' = FALSE
              /\ BeginPass("actual")
              /\ exit_code' = exit_code
         ELSE /\ pc' = "exit"
              /\ exit_code' = 0
              /\ UNCHANGED <<dry_run, callsite, calls, failed, raised, db_file, result>>
    /\ Ask(~args.non_interactive, "proceed")
    /\ UNCHANGED <<args, config, env, direction, executed, commands, failures, interrupted,
                   backups, sudo, paths, rsync_proc>>

\* The --command-only branch: record the plan; an exception inside the branch
\* is caught by the handler of run_synchronization.
plan_only ==
    /\ pc = "plan"
    /\ commands' = PlanCommands
    /\ IF PlanRaises
       THEN /\ pc' = "handler"
            /\ raised' = "plan"
            /\ UNCHANGED <<result, exit_code>>
       ELSE /\ Return(TRUE)
            /\ raised' = raised
    /\ UNCHANGED <<args, config, env, direction, dry_run, callsite, db_file, calls, executed,
                   failures, failed, interrupted, prompts, cached_password, backups, sudo, paths, rsync_proc>>

-----------------------------------------------------------------------------
(* Steps of run_synchronization (Live and DryRun passes).                  *)

\* What no step of the pipeline changes.
Frame ==
    UNCHANGED <<args, config, env, direction, dry_run, callsite, commands, interrupted,
                backups, sudo, paths, rsync_proc>>

\* The step invokes manager method fn, which issues ops; `fails` names the step
\* when the method reports failure; control continues at `next`.
Proceed(fn, ops, fails, next) ==
    /\ calls' = Append(calls, Call(fn, dry_run))
    /\ executed' = executed \o ops
    /\ failed' = failed \cup fails
    /\ failures' = failures + (IF fails = {} THEN 0 ELSE 1)
    /\ pc' = next
    /\ UNCHANGED <<raised, result, exit_code>>

\* The step is skipped by the glue of run_synchronization.
Skip(next) ==
    /\ pc' = next
    /\ UNCHANGED <<calls, executed, failed, failures, raised, result, exit_code>>

\* An Exception escapes fn after it issued ops: control moves to the handler.
Raise(fns, ops, step) ==
    /\ calls' = calls \o fns
    /\ executed' = executed \o ops
    /\ pc' = "handler"
    /\ raised' = step
    /\ UNCHANGED <<failed, failures, result, exit_code>>

\* fn reports failure and run_synchronization returns False at once.
Abort(fn, ops, step) ==
    /\ calls' = Append(calls, Call(fn, dry_run))
    /\ executed' = executed \o ops
    /\ failed' = failed \cup {step}
    /\ failures' = failures + 1
    /\ raised' = raised
    /\ Return(FALSE)

\* The remote (push) or local (pull) existence / file-count check of `latest`.
BackupCheckOps ==
    IF direction = "push" THEN <<"mkdir_latest", "count_latest">> ELSE <<"count_latest">>

\* handle_existing_backup(): commands issued for each way it can go.
ExistingBackupOps(outcome) ==
    CASE outcome = "absent"         -> <<"mkdir_latest">>
      [] outcome = "absent_failed"  -> <<"mkdir_latest">>
      [] outcome = "empty"          -> BackupCheckOps
      [] outcome = "check_failed"   -> BackupCheckOps
      [] outcome = "prompt_failed"  -> BackupCheckOps \o <<"list_latest">>
      [] outcome = "archived"       -> BackupCheckOps \o
                                       <<"list_latest", "mkdir_archives", "mv_latest_to_archive">>
      [] outcome = "archive_failed" -> BackupCheckOps \o
                                       <<"list_latest", "mkdir_archives", "mv_latest_to_archive">>
      [] outcome = "purged"         -> BackupCheckOps \o
                                       <<"list_latest", "rm_latest", "mkdir_latest">>
      [] outcome = "purge_failed"   -> BackupCheckOps \o <<"list_latest", "rm_latest">>

\* handle_existing_backup() asking nobody and still purging: the decision left
\* open in non-interactive mode.
ExistingBackupOutcomes_undecided ==
    LET keep  == {"archived", "archive_failed"}
        purge == {"purged", "purge_failed"} \cup
                 (IF args.non_interactive THEN {} ELSE {"prompt_failed"})
        check == IF direction = "push" THEN {"empty", "check_failed"}
                 ELSE {"empty", "absent", "absent_failed"}
    IN  check \cup keep \cup purge

\* Outcomes of handle_existing_backup(): the remote check can fail on push, the
\* local directory can be absent on pull; non-interactive mode always archives.
ExistingBackupOutcomes ==
    LET keep  == {"archived", "archive_failed"}
        purge == IF args.non_interactive THEN {}
                 ELSE {"purged", "purge_failed", "prompt_failed"}
        check == IF direction = "push" THEN {"empty", "check_failed"}
                 ELSE {"empty", "absent", "absent_failed"}
    IN  check \cup keep \cup purge

FailureOutcomes ==
    { "absent_failed", "check_failed", "prompt_failed", "archive_failed", "purge_failed",
      "delete_failed" }

\* Outcomes in which files were found in `latest`, so that a decision is taken:
\* by the operator at a prompt, or by default in non-interactive mode.
DecisionOutcomes ==
    { "archived", "archive_failed", "purged", "purge_failed", "deleted", "delete_failed",
      "prompt_failed" }

\* Variant of the preflight whose failure is only noted: the run goes on to
\* Step 1.
handle_existing_backup_tolerant ==
    /\ pc = "preflight"
    /\ Frame
    /\ db_file' = db_file
    /\ IF args.no_backup THEN Skip("maint_on") /\ NoPrompt
       ELSE IF ~config.backup_root_resolvable
            THEN /\ Raise(IF dry_run THEN <<>> ELSE <<Call("handle_existing_backup", dry_run)>>,
                          <<>>, "preflight")
                 /\ NoPrompt
       ELSE IF dry_run THEN Skip("maint_on") /\ NoPrompt
       ELSE \E outcome \in ExistingBackupOutcomes :
              /\ Ask(~args.non_interactive /\ outcome \in DecisionOutcomes, "keep_latest")
              /\ IF outcome \in FailureOutcomes
                 THEN /\ CanFail
                      /\ Proceed("handle_existing_backup", ExistingBackupOps(outcome),
                              {"preflight"}, "maint_on")
                 ELSE Proceed("handle_existing_backup", ExistingBackupOps(outcome), {},
                              "maint_on")

\* "Check for existing backup before sync" and handle_existing_backup().
handle_existing_backup ==
    /\ pc = "preflight"
    /\ Frame
    /\ db_file' = db_file
    /\ IF args.no_backup THEN Skip("maint_on") /\ NoPrompt
       ELSE IF ~config.backup_root_resolvable
            THEN /\ Raise(IF dry_run THEN <<>> ELSE <<Call("handle_existing_backup", dry_run)>>,
                          <<>>, "preflight")
                 /\ NoPrompt
       ELSE IF dry_run THEN Skip("maint_on") /\ NoPrompt
       ELSE \E outcome \in ExistingBackupOutcomes :
              /\ Ask(~args.non_interactive /\ outcome \in DecisionOutcomes, "keep_latest")
              /\ IF outcome \in FailureOutcomes
                 THEN /\ CanFail
                      /\ Abort("handle_existing_backup", ExistingBackupOps(outcome), "preflight")
                 ELSE Proceed("handle_existing_backup", ExistingBackupOps(outcome), {},
                              "maint_on")

\* Variant of Step 1 that gives up when the local activation fails: the remote
\* side is not tried and run_synchronization returns False.
activate_maintenance_mode_strict ==
    /\ pc = "maint_on"
    /\ Frame
    /\ NoPrompt
    /\ db_file' = db_file
    /\ IF dry_run
       THEN Proceed("activate_maintenance_mode", <<>>, {}, "db_export")
       ELSE \E fails \in {{}, {"activate_local"}, {"activate_remote"}} :
              /\ fails # {} => CanFail
              /\ IF fails = {"activate_local"}
                 THEN Abort("activate_maintenance_mode", <<"maint_on_local">>, "activate_local")
                 ELSE Proceed("activate_maintenance_mode",
                              <<"maint_on_local", "maint_on_remote">>, fails, "db_export")

\* Step 1: activate_maintenance_mode() on the local, then the remote side; a
\* failure on either side is only a warning.
activate_maintenance_mode ==
    /\ pc = "maint_on"
    /\ Frame
    /\ NoPrompt
    /\ db_file' = db_file
    /\ IF dry_run
       THEN Proceed("activate_maintenance_mode", <<>>, {}, "db_export")
       ELSE \E fails \in {{}, {"activate_local"}, {"activate_remote"}} :
              /\ fails # {} => CanFail
              /\ Proceed("activate_maintenance_mode",
                         <<"maint_on_local", "maint_on_remote">>, fails, "db_export")

\* Variant of Step 2 that hands the path of the artifact on although the export
\* or the download failed.
export_database_path_always ==
    /\ pc = "db_export"
    /\ Frame
    /\ NoPrompt
    /\ IF files_only
       THEN Skip("file_transfer") /\ db_file' = db_file
       ELSE IF dry_run
       THEN Proceed("export_database", <<>>, {}, "file_transfer") /\ db_file' = "artifact"
       ELSE \E outcome \in {"ok", "export_failed", "download_failed"} :
              LET pre == IF direction = "pull" THEN <<"mkdir_db_temp_remote">> ELSE <<>>
                  ops == CASE outcome = "export_failed" -> pre \o <<"db_export">>
                           [] outcome = "download_failed" -> pre \o <<"db_export", "scp_db">>
                           [] OTHER -> pre \o <<"db_export">> \o
                                       (IF direction = "pull" THEN <<"scp_db">> ELSE <<>>)
              IN /\ outcome = "download_failed" => direction = "pull"
                 /\ outcome # "ok" => CanFail
                 /\ Proceed("export_database", ops,
                            IF outcome = "ok" THEN {} ELSE {"db_export"}, "file_transfer")
                 /\ db_file' = "artifact"

\* Step 2: export_database(); db_file is None when the export or (pull) the
\* download of the artifact fails.
export_database ==
    /\ pc = "db_export"
    /\ Frame
    /\ NoPrompt
    /\ IF files_only
       THEN Skip("file_transfer") /\ db_file' = db_file
       ELSE IF dry_run
       THEN Proceed("export_database", <<>>, {}, "file_transfer") /\ db_file' = "artifact"
       ELSE \E outcome \in {"ok", "export_failed", "download_failed"} :
              LET pre == IF direction = "pull" THEN <<"mkdir_db_temp_remote">> ELSE <<>>
                  ops == CASE outcome = "export_failed" -> pre \o <<"db_export">>
                           [] outcome = "download_failed" -> pre \o <<"db_export", "scp_db">>
                           [] OTHER -> pre \o <<"db_export">> \o
                                       (IF direction = "pull" THEN <<"scp_db">> ELSE <<>>)
              IN /\ outcome = "download_failed" => direction = "pull"
                 /\ outcome # "ok" => CanFail
                 /\ Proceed("export_database", ops,
                            IF outcome = "ok" THEN {} ELSE {"db_export"}, "file_transfer")
                 /\ db_file' = IF outcome = "ok" THEN "artifact" ELSE "none"

\* Ways a command that may need elevation on the remote side can go:
\*   "direct"       it runs without elevation (the path is writable, or the
\*                  dedicated sudo user may run it as is)
\*   "nopasswd"     the `sudo -n true` probe reports passwordless sudo
\*   "password"     the probe reports that a password is needed, and
\*                  get_sudo_password() returns one
\*   "no_password"  as before, but no password is obtained
ElevationRoutes == { "direct", "nopasswd", "password", "no_password" }

\* password_manager.get_sudo_password() along an elevation route: a cached
\* password is returned as is, otherwise getpass() reads from the operator
\* whatever the interaction mode; only a non-empty entry is cached.
Acquire(route) ==
    CASE route = "password" ->
           /\ prompts' = IF cached_password THEN prompts ELSE Append(prompts, "sudo_password")
           /\ cached_password' = TRUE
      [] route = "no_password" ->
           /\ ~cached_password
           /\ prompts' = Append(prompts, "sudo_password")
           /\ cached_password' = cached_password
      [] OTHER -> NoPrompt

\* _cleanup_destination_files(): the configured pre-sync deletion at the target.
\* On push the writability of the live path is tested first; without a
\* password the deletion is skipped.
CleanupDestinationOps(route) ==
    IF ~config.cleanup_files THEN <<>>
    ELSE IF direction = "pull" THEN <<"cleanup_delete">>
    ELSE <<"probe_writable">> \o
         (IF route = "direct" THEN <<>> ELSE <<"probe_sudo">>) \o
         (IF route = "no_password" /\ ~config.sudo_user THEN <<>> ELSE <<"cleanup_delete">>)

\* Elevation routes the remote host leaves open once the sudo probe is reached.
ProbedRoutes ==
    IF env.nopasswd THEN {"nopasswd"} ELSE {"password", "no_password"}

\* Elevation routes open to _cleanup_destination_files().
CleanupRoutes ==
    IF ~(config.cleanup_files /\ direction = "push") \/ env.direct THEN {"direct"}
    ELSE ProbedRoutes

\* _ensure_backup_dir_exists(): the directory rsync moves replaced files into is
\* probed on the remote side (push) and created when it is missing.
EnsureBackupDirOps ==
    IF direction = "push" THEN <<"probe_backup_dir", "mkdir_backup_dir">>
    ELSE <<"mkdir_backup_dir">>

\* Variant of Step 3 after which Step 4 follows whatever the direction and mode.
DoTransferFiles_then_permissions ==
    LET next == "set_perms"
    IN \E ok \in BOOLEAN :
         /\ ~ok => CanFail
         /\ IF dry_run
            THEN /\ NoPrompt
                 /\ Proceed("transfer_files", <<"rsync_dry_run">>,
                            IF ok THEN {} ELSE {"file_transfer"}, next)
            ELSE \E route \in CleanupRoutes :
                   /\ Acquire(route)
                   /\ Proceed("transfer_files",
                              CleanupDestinationOps(route) \o EnsureBackupDirOps \o <<"rsync">>,
                              IF ok THEN {} ELSE {"file_transfer"}, next)

\* SSHManager.transfer_files(): pre-sync deletion, backup directory and rsync
\* (Live), or rsync --dry-run alone.
DoTransferFiles ==
    LET next == IF direction = "push" /\ ~dry_run THEN "set_perms" ELSE "db_import"
    IN \E ok \in BOOLEAN :
         /\ ~ok => CanFail
         /\ IF dry_run
            THEN /\ NoPrompt
                 /\ Proceed("transfer_files", <<"rsync_dry_run">>,
                            IF ok THEN {} ELSE {"file_transfer"}, next)
            ELSE \E route \in CleanupRoutes :
                   /\ Acquire(route)
                   /\ Proceed("transfer_files",
                              CleanupDestinationOps(route) \o EnsureBackupDirOps \o <<"rsync">>,
                              IF ok THEN {} ELSE {"file_transfer"}, next)

\* Variant of Step 3 in which --db-only does not skip the file transfer.
transfer_files_ignoring_db_only ==
    /\ pc = "file_transfer"
    /\ Frame
    /\ db_file' = db_file
    /\ DoTransferFiles

\* Step 3: transfer_files(); its result is not read by run_synchronization.
transfer_files ==
    /\ pc = "file_transfer"
    /\ Frame
    /\ db_file' = db_file
    /\ IF db_only THEN Skip("db_import") /\ NoPrompt ELSE DoTransferFiles

\* The three permission commands, in the order set_permissions() issues them.
PermissionCommands == <<"chown", "chmod_dirs", "chmod_files">>

\* Elevation routes open to set_permissions(): without a dedicated sudo user
\* (and without --sudo-password) it always probes for sudo rights first.
PermissionRoutes ==
    IF config.sudo_user /\ env.direct THEN {"direct"} ELSE ProbedRoutes

\* Step 4: set_permissions() (push, not dry run); it stops at the first command
\* that fails, and gives up when a needed password is not obtained.
set_permissions ==
    /\ pc = "set_perms"
    /\ Frame
    /\ db_file' = db_file
    /\ \E route \in PermissionRoutes :
         LET probe == IF route = "direct" THEN <<>> ELSE <<"probe_sudo">>
         IN /\ Acquire(route)
            /\ IF route = "no_password"
               THEN /\ CanFail
                    /\ Proceed("set_permissions", probe, {"set_perms"}, "db_import")
               ELSE \E k \in 0..Len(PermissionCommands) :
                      \* k = 0: every command succeeds; otherwise the k-th one fails
                      /\ k # 0 => CanFail
                      /\ Proceed("set_permissions",
                                 probe \o (IF k = 0 THEN PermissionCommands
                                           ELSE SubSeq(PermissionCommands, 1, k)),
                                 IF k = 0 THEN {} ELSE {"set_perms"}, "db_import")

\* import_database() on push first delivers the artifact to the remote side.
UploadOps ==
    IF direction = "push" THEN <<"mkdir_db_temp_remote", "scp_db">> ELSE <<>>

\* reset_database() can raise before resetting when database backups are
\* enabled: the interactive prompt reads stdin outside any try block, and
\* backup_database() creates the local backup directory (pull) outside one.
ResetCanRaise ==
    config.db_backup_enabled /\ (~args.non_interactive \/ direction = "pull")

\* Variant of import_database() that returns without importing when the reset
\* failed.
ResetAndImportOps_gated(outcome) ==
    IF outcome = "reset_failed" THEN <<"db_reset">> ELSE <<"db_reset", "db_import">>

\* import_database(): `wp db reset --yes`, then `wp db import`, whatever the
\* reset gave.
ResetAndImportOps(outcome) == <<"db_reset", "db_import">>

\* Step 5: import_database(): upload (push), reset_database(), import.  A failed
\* reset is only a warning; the import is attempted anyway.
import_database ==
    /\ pc = "db_import"
    /\ Frame
    /\ db_file' = db_file
    /\ IF files_only \/ db_file = "none" THEN Skip("validate") /\ NoPrompt
       ELSE IF dry_run THEN Proceed("import_database", <<>>, {}, "url") /\ NoPrompt
       ELSE \E outcome \in {"ok", "upload_failed", "reset_failed", "import_failed", "raise"} :
              \E backup \in IF config.db_backup_enabled /\ outcome \notin {"upload_failed", "raise"}
                            THEN (IF args.non_interactive THEN {TRUE} ELSE BOOLEAN)
                            ELSE {FALSE} :
                LET backupOps == IF backup THEN <<"mkdir_db_backup", "db_backup">> ELSE <<>>
                IN /\ Ask(config.db_backup_enabled /\ ~args.non_interactive
                          /\ outcome # "upload_failed", "backup_database")
                   /\ CASE outcome = "upload_failed" ->
                          /\ direction = "push" /\ CanFail
                          /\ Proceed("import_database", UploadOps, {"db_upload"}, "url")
                     [] outcome = "raise" ->
                          /\ ResetCanRaise
                          /\ Raise(<<Call("import_database", dry_run)>>, UploadOps, "db_import")
                     [] outcome = "ok" ->
                          Proceed("import_database",
                                  UploadOps \o backupOps \o ResetAndImportOps(outcome),
                                  {}, "url")
                     [] OTHER ->
                          /\ CanFail
                          /\ Proceed("import_database",
                                     UploadOps \o backupOps \o ResetAndImportOps(outcome),
                                     IF outcome = "reset_failed" THEN {"db_reset"}
                                     ELSE {"db_import"}, "url")

\* Variant of Step 6 in which a failed search-replace ends the run.
replace_urls_aborting ==
    /\ pc = "url"
    /\ Frame
    /\ NoPrompt
    /\ db_file' = db_file
    /\ IF dry_run THEN Proceed("replace_urls", <<>>, {}, "cache")
       ELSE \E ok \in BOOLEAN :
              /\ ~ok => CanFail
              /\ IF ok
                 THEN Proceed("replace_urls",
                              <<"search_replace", "search_replace", "search_replace",
                                "search_replace">>, {}, "cache")
                 ELSE Abort("replace_urls", <<"search_replace">>, "url")

\* Step 6: replace_urls(): four search-replace commands on the target.
replace_urls ==
    /\ pc = "url"
    /\ Frame
    /\ NoPrompt
    /\ db_file' = db_file
    /\ IF dry_run THEN Proceed("replace_urls", <<>>, {}, "cache")
       ELSE \E ok \in BOOLEAN :
              /\ ~ok => CanFail
              /\ Proceed("replace_urls",
                         <<"search_replace", "search_replace", "search_replace", "search_replace">>,
                         IF ok THEN {} ELSE {"url"}, "cache")

\* Step 7: clear_cache().
clear_cache ==
    /\ pc = "cache"
    /\ Frame
    /\ NoPrompt
    /\ db_file' = db_file
    /\ IF dry_run THEN Proceed("clear_cache", <<>>, {}, "plugins")
       ELSE \E ok \in BOOLEAN :
              /\ ~ok => CanFail
              /\ Proceed("clear_cache", <<"cache_flush">>,
                         IF ok THEN {} ELSE {"cache"}, "plugins")

\* Variant of Step 8 that is skipped when pulling.
manage_plugins_push_only ==
    /\ pc = "plugins"
    /\ Frame
    /\ NoPrompt
    /\ db_file' = db_file
    /\ IF direction = "pull" THEN Skip("validate")
       ELSE IF dry_run \/ ~config.plugins THEN Proceed("manage_plugins", <<>>, {}, "validate")
       ELSE \E ok \in BOOLEAN :
              /\ ~ok => CanFail
              /\ Proceed("manage_plugins", <<"plugin_activate", "plugin_deactivate">>,
                         IF ok THEN {} ELSE {"plugins"}, "validate")

\* Step 8: manage_plugins(): both the activation and the deactivation list are
\* applied even when one of them fails; without plugin lists nothing is issued.
manage_plugins ==
    /\ pc = "plugins"
    /\ Frame
    /\ NoPrompt
    /\ db_file' = db_file
    /\ IF dry_run \/ ~config.plugins THEN Proceed("manage_plugins", <<>>, {}, "validate")
       ELSE \E ok \in BOOLEAN :
              /\ ~ok => CanFail
              /\ Proceed("manage_plugins", <<"plugin_activate", "plugin_deactivate">>,
                         IF ok THEN {} ELSE {"plugins"}, "validate")

\* Step 9: run_validation_checks(); the validation manager is only constructed
\* when validation is enabled in the configuration, so with validation disabled
\* and no --skip-validation the call itself raises.
run_validation_checks ==
    /\ pc = "validate"
    /\ Frame
    /\ NoPrompt
    /\ db_file' = db_file
    /\ IF args.skip_validation \/ dry_run THEN Skip("maint_off")
       ELSE IF ~config.validation_enabled THEN Raise(<<>>, <<>>, "validate")
       ELSE \E ok \in BOOLEAN :
              /\ ~ok => CanFail
              /\ Proceed("run_validation_checks", <<"validation_checks">>,
                         IF ok THEN {} ELSE {"validate"}, "maint_off")

\* Variant of Step 10 in which the pipeline goes on without deactivating.
deactivate_maintenance_mode_skipped ==
    /\ pc = "maint_off"
    /\ Frame
    /\ NoPrompt
    /\ db_file' = db_file
    /\ Skip("review")

\* Step 10: deactivate_maintenance_mode() on the local, then the remote side.
deactivate_maintenance_mode ==
    /\ pc = "maint_off"
    /\ Frame
    /\ NoPrompt
    /\ db_file' = db_file
    /\ IF dry_run
       THEN Proceed("deactivate_maintenance_mode", <<>>, {}, "review")
       ELSE \E fails \in {{}, {"deactivate_local"}, {"deactivate_remote"}} :
              /\ fails # {} => CanFail
              /\ Proceed("deactivate_maintenance_mode",
                         <<"maint_off_local", "maint_off_remote">>, fails, "review")

\* handle_final_backup_cleanup(): commands issued for each way it can go.
FinalBackupOps(outcome) ==
    CASE outcome = "absent"         -> <<>>
      [] outcome = "empty"          -> BackupCheckOps
      [] outcome = "check_failed"   -> BackupCheckOps
      [] outcome = "prompt_failed"  -> BackupCheckOps \o <<"list_latest">>
      [] outcome = "deleted"        -> BackupCheckOps \o <<"list_latest", "rm_latest">>
      [] outcome = "delete_failed"  -> BackupCheckOps \o <<"list_latest", "rm_latest">>
      [] outcome = "archived"       -> BackupCheckOps \o
                                       <<"list_latest", "mkdir_archives", "mv_latest_to_archive">>
      [] outcome = "archive_failed" -> BackupCheckOps \o
                                       <<"list_latest", "mkdir_archives", "mv_latest_to_archive">>

\* handle_final_backup_cleanup() asking nobody and still deleting.
FinalBackupOutcomes_undecided ==
    LET keep   == {"archived", "archive_failed"}
        delete == {"deleted"} \cup
                  (IF args.non_interactive THEN {} ELSE {"prompt_failed"}) \cup
                  (IF direction = "push" THEN {"delete_failed"} ELSE {})
        check  == IF direction = "push" THEN {"empty", "check_failed"}
                  ELSE {"empty", "absent"}
    IN  check \cup keep \cup delete

\* Outcomes of handle_final_backup_cleanup(): non-interactive mode always
\* archives; the local deletion (pull) ignores errors.
FinalBackupOutcomes ==
    LET keep   == {"archived", "archive_failed"}
        delete == IF args.non_interactive THEN {}
                  ELSE {"deleted", "prompt_failed"} \cup
                       (IF direction = "push" THEN {"delete_failed"} ELSE {})
        check  == IF direction = "push" THEN {"empty", "check_failed"}
                  ELSE {"empty", "absent"}
    IN  check \cup keep \cup delete

\* Step 11: review of the backed up files, after maintenance mode is off.
handle_final_backup_cleanup ==
    /\ pc = "review"
    /\ Frame
    /\ db_file' = db_file
    /\ IF args.no_backup \/ args.skip_final_cleanup \/ dry_run
       THEN Skip("cleanup") /\ NoPrompt
       ELSE \E outcome \in FinalBackupOutcomes :
              /\ Ask(~args.non_interactive /\ outcome \in DecisionOutcomes, "delete_latest")
              /\ IF outcome \in FailureOutcomes
                 THEN /\ CanFail
                      /\ Abort("handle_final_backup_cleanup", FinalBackupOps(outcome),
                               "review")
                 ELSE Proceed("handle_final_backup_cleanup", FinalBackupOps(outcome), {},
                              "cleanup")

\* DatabaseManager.cleanup(): the local artifact is removed, then the remote
\* copy and the remote temporary directory (push and pull alike).  An error of
\* the local removal is caught and ends the method before the remote commands;
\* a failing remote command is a warning.
CleanupOps(outcome) ==
    IF outcome = "local_failed" THEN <<"rm_local_db_file">>
    ELSE <<"rm_local_db_file", "rm_remote_db_file", "rm_remote_db_temp">>

\* Variant of Step 12 in which a failure inside cleanup() fails the run.
cleanup_result_returned ==
    /\ pc = "cleanup"
    /\ Frame
    /\ NoPrompt
    /\ db_file' = db_file
    /\ raised' = raised
    /\ IF db_file = "none"
       THEN UNCHANGED <<calls, executed, failed, failures>>
       ELSE /\ calls' = Append(calls, Call("cleanup", dry_run))
            /\ IF dry_run
               THEN UNCHANGED <<executed, failed, failures>>
               ELSE \E outcome \in {"ok", "local_failed", "remote_failed"} :
                      /\ outcome # "ok" => CanFail
                      /\ executed' = executed \o CleanupOps(outcome)
                      /\ failed' = IF outcome = "ok" THEN failed ELSE failed \cup {"cleanup"}
                      /\ failures' = failures + (IF outcome = "ok" THEN 0 ELSE 1)
    /\ Return(db_file = "none" \/ dry_run \/ failures' = failures)

\* Step 12: cleanup() of the exported artifact, then the successful return;
\* what cleanup() returns is not read.
cleanup ==
    /\ pc = "cleanup"
    /\ Frame
    /\ NoPrompt
    /\ db_file' = db_file
    /\ raised' = raised
    /\ Return(TRUE)
    /\ IF db_file = "none"
       THEN UNCHANGED <<calls, executed, failed, failures>>
       ELSE /\ calls' = Append(calls, Call("cleanup", dry_run))
            /\ IF dry_run
               THEN UNCHANGED <<executed, failed, failures>>
               ELSE \E outcome \in {"ok", "local_failed", "remote_failed"} :
                      /\ outcome # "ok" => CanFail
                      /\ executed' = executed \o CleanupOps(outcome)
                      /\ failed' = IF outcome = "ok" THEN failed ELSE failed \cup {"cleanup"}
                      /\ failures' = failures + (IF outcome = "ok" THEN 0 ELSE 1)

\* Variant of the handler that returns False without deactivating.
exception_handler_without_deactivation ==
    /\ pc = "handler"
    /\ Frame
    /\ NoPrompt
    /\ db_file' = db_file
    /\ raised' = raised
    /\ UNCHANGED <<calls, executed, failed, failures>>
    /\ Return(FALSE)

\* The `except Exception` handler of run_synchronization: it deactivates
\* maintenance mode with dry_run=False whatever the mode, and returns False.
exception_handler ==
    /\ pc = "handler"
    /\ Frame
    /\ NoPrompt
    /\ db_file' = db_file
    /\ raised' = raised
    /\ calls' = Append(calls, Call("deactivate_maintenance_mode", FALSE))
    /\ executed' = executed \o <<"maint_off_local", "maint_off_remote">>
    /\ UNCHANGED <<failed, failures>>
    /\ Return(FALSE)

\* Ctrl-C while run() is under way: KeyboardInterrupt is not an Exception, so it
\* passes the handler of run_synchronization and is caught in run(), which
\* prints a message and returns 1.
KeyboardInterrupt ==
    /\ pc # "exit"
    /\ pc' = "exit"
    /\ exit_code' = 1
    /\ interrupted' = TRUE
    /\ UNCHANGED <<args, config, env, direction, dry_run, callsite, db_file, calls, executed,
                   commands, result, failures, failed, raised, prompts, cached_password,
                   backups, sudo, paths, rsync_proc>>

Next ==
    \/ run
    \/ validate_environment
    \/ confirm_synchronization
    \/ plan_only
    \/ handle_existing_backup
    \/ activate_maintenance_mode
    \/ export_database
    \/ transfer_files
    \/ set_permissions
    \/ import_database
    \/ replace_urls
    \/ clear_cache
    \/ manage_plugins
    \/ run_validation_checks
    \/ deactivate_maintenance_mode
    \/ handle_final_backup_cleanup
    \/ cleanup
    \/ exception_handler

Spec == Init /\ [][Next]_vars

\* The same program against every kind of remote host.
SpecElevation == InitElevation /\ [][Next]_vars

-----------------------------------------------------------------------------
(* The backup root on disk under handle_existing_backup() and              *)
(* handle_final_backup_cleanup(), over any number of runs.                 *)

\* Nothing of the run itself changes while the disk is looked at.
RunUnchanged ==
    UNCHANGED <<config, env, direction, dry_run, pc, callsite, db_file, calls, executed,
                commands, result, exit_code, failures, failed, raised, interrupted,
                prompts, cached_password, sudo, paths, rsync_proc>>

\* `mkdir -p <latest>` / os.makedirs(backup_dir, exist_ok=True).
MkdirLatest(b) ==
    IF b.latest.present THEN b ELSE [b EXCEPT !.latest = [present |-> TRUE, files |-> {}]]

\* `rm -rf <latest>` / shutil.rmtree(backup_dir).
RemoveLatest(b) == [b EXCEPT !.latest = NoDir]

\* `rm -rf <latest> || true` / shutil.rmtree(backup_dir, ignore_errors=True):
\* the directory is gone when `removes` holds; otherwise it stays as it was and
\* the error is dropped.
RemoveLatestOrTrue(b, removes) == IF removes THEN RemoveLatest(b) ELSE b

\* `mv <latest> <archives>/<t>` / shutil.move(backup_dir, archive_path) that
\* replaces what is at <archives>/<t>.
MoveLatest_replacing(b, t) ==
    [b EXCEPT !.archives[t] = [present |-> TRUE, files |-> b.latest.files, nested |-> NoDir],
              !.latest = NoDir]

\* `mv <latest> <archives>/<t>` / shutil.move(backup_dir, archive_path): a
\* rename when <archives>/<t> does not exist; a move into the directory when it
\* does; a failure, with nothing changed, when it already holds a `latest`.
MoveLatest(b, t) ==
    IF ~b.archives[t].present
    THEN [b EXCEPT !.archives[t] = [present |-> TRUE, files |-> b.latest.files, nested |-> NoDir],
                   !.latest = NoDir]
    ELSE IF ~b.archives[t].nested.present
    THEN [b EXCEPT !.archives[t].nested = b.latest, !.latest = NoDir]
    ELSE b

\* What handle_existing_backup() leaves on disk: `response` is the answer to
\* "keep these files?", `reached` tells whether the remote commands went
\* through (a push), the local calls always do; `removes` tells whether the
\* removal of `latest` removed it.
ExistingBackupOnDisk(b, response, reached, removes) ==
    IF direction = "push"
    THEN IF ~reached THEN b
         ELSE LET made == MkdirLatest(b)
              IN IF made.latest.files = {} THEN made
                 ELSE IF response = "yes" THEN MoveLatest(made, b.clock)
                 ELSE MkdirLatest(RemoveLatestOrTrue(made, removes))
    ELSE IF ~b.latest.present THEN MkdirLatest(b)
         ELSE IF b.latest.files = {} THEN b
         ELSE IF response = "yes" THEN MoveLatest(b, b.clock)
         ELSE MkdirLatest(RemoveLatestOrTrue(b, removes))

\* What handle_existing_backup() returns: True with --no-backup; False when the
\* file count of a push cannot be taken or the move to `archives` fails (`mv`
\* reports it, shutil.move raises it); True otherwise, whatever the removal did.
ExistingBackupReturns(b, response, reached) ==
    IF args.no_backup THEN TRUE
    ELSE IF direction = "push" /\ ~reached THEN FALSE
    ELSE IF MkdirLatest(b).latest.files = {} THEN TRUE
    ELSE IF response = "yes"
         THEN ~(b.archives[b.clock].present /\ b.archives[b.clock].nested.present)
    ELSE TRUE

\* What handle_final_backup_cleanup() leaves on disk: `response` is the answer
\* to "delete these backed up files?".
FinalBackupOnDisk(b, response, reached, removes) ==
    IF direction = "push"
    THEN IF ~reached THEN b
         ELSE LET made == MkdirLatest(b)
              IN IF made.latest.files = {} THEN made
                 ELSE IF response = "yes" THEN RemoveLatestOrTrue(made, removes)
                 ELSE MoveLatest(made, b.clock)
    ELSE IF ~b.latest.present \/ b.latest.files = {} THEN b
         ELSE IF response = "yes" THEN RemoveLatestOrTrue(b, removes)
         ELSE MoveLatest(b, b.clock)

\* A run starts: it is interactive or not.
next_invocation ==
    /\ \E n \in BOOLEAN : args' = [args EXCEPT !.non_interactive = n]
    /\ args' # args
    /\ backups' = backups
    /\ RunUnchanged

\* The clock reaches the next timestamp of the archive format.
tick ==
    /\ backups.clock < MaxClock
    /\ backups' = [backups EXCEPT !.clock = @ + 1]
    /\ args' = args
    /\ RunUnchanged

\* The mirroring tool sets replaced or deleted files aside in `latest`.
rsync_backup_dir ==
    /\ \E fs \in SUBSET Files \ {{}} :
         backups' = [backups EXCEPT !.latest = [present |-> TRUE, files |-> @.files \cup fs]]
    /\ args' = args
    /\ RunUnchanged

\* handle_existing_backup() in a Live run.
handle_existing_backup_on_disk ==
    /\ \E response \in (IF args.non_interactive THEN {"yes"} ELSE {"yes", "no"}),
          reached \in BOOLEAN, removes \in BOOLEAN :
         backups' = ExistingBackupOnDisk(backups, response, reached, removes)
    /\ backups' # backups
    /\ args' = args
    /\ RunUnchanged

\* handle_final_backup_cleanup() in a Live run.
handle_final_backup_cleanup_on_disk ==
    /\ \E response \in (IF args.non_interactive THEN {"no"} ELSE {"yes", "no"}),
          reached \in BOOLEAN, removes \in BOOLEAN :
         backups' = FinalBackupOnDisk(backups, response, reached, removes)
    /\ backups' # backups
    /\ args' = args
    /\ RunUnchanged

NextBackups ==
    \/ next_invocation
    \/ tick
    \/ rsync_backup_dir
    \/ handle_existing_backup_on_disk
    \/ handle_final_backup_cleanup_on_disk

\* Live runs with backups, one after the other, on a backup root whose
\* `latest` holds anything at first.
InitBackups ==
    \E a \in ArgsSpace, c \in ConfigSpace, d \in {"push", "pull"} :
       /\ Canonical(a, c, d)
       /\ a.no_dry_run /\ ~a.command_only /\ ~a.no_backup /\ ~a.skip_final_cleanup
       /\ ~a.db_only /\ ~a.files_only /\ ~a.skip_wp_check /\ ~a.skip_validation
       /\ c.backup_root_resolvable /\ c.validation_enabled /\ ~c.db_backup_enabled
       /\ ~c.plugins /\ ~c.cleanup_files /\ c.sudo_user
       /\ Started(a, c, d, Permissive)
       /\ \E l \in {NoDir} \cup { [present |-> TRUE, files |-> fs] : fs \in SUBSET Files } :
             backups = [NoBackups EXCEPT !.latest = l]
       /\ sudo = NoCall
       /\ paths = NoPaths
       /\ rsync_proc = NoProcess

SpecBackups == InitBackups /\ [][NextBackups]_vars

\* handle_existing_backup() of a Live run, with what it leaves on disk and what
\* it returns to run_synchronization.
handle_existing_backup_returns ==
    /\ pc = "preflight"
    /\ \E response \in (IF args.non_interactive THEN {"yes"} ELSE {"yes", "no"}),
          reached \in BOOLEAN, removes \in BOOLEAN :
         /\ backups' = IF args.no_backup THEN backups
                       ELSE ExistingBackupOnDisk(backups, response, reached, removes)
         /\ IF ExistingBackupReturns(backups, response, reached)
            THEN pc' = "maint_on" /\ failed' = {}
            ELSE pc' = "exit" /\ failed' = {"preflight"}
    /\ UNCHANGED <<args, config, env, direction, dry_run, callsite, db_file, calls, executed,
                   commands, result, exit_code, failures, raised, interrupted, prompts,
                   cached_password, sudo, paths, rsync_proc>>

NextPreflight == handle_existing_backup_returns

\* A Live run about to check for an existing backup, on a backup root left by
\* earlier runs: `latest` holds anything, and so does the entry of `archives`
\* for the present timestamp.
InitPreflight ==
    \E a \in ArgsSpace, c \in ConfigSpace, d \in {"push", "pull"} :
       /\ Canonical(a, c, d)
       /\ a.no_dry_run /\ ~a.command_only /\ ~a.no_backup /\ ~a.skip_final_cleanup
       /\ ~a.db_only /\ ~a.files_only /\ ~a.skip_wp_check /\ ~a.skip_validation
       /\ c.backup_root_resolvable /\ c.validation_enabled /\ ~c.db_backup_enabled
       /\ ~c.plugins /\ ~c.cleanup_files /\ c.sudo_user
       /\ args = a /\ config = c /\ direction = d /\ env = Permissive
       /\ dry_run = FALSE /\ pc = "preflight" /\ callsite = "actual"
       /\ db_file = "none" /\ calls = <<>> /\ commands = <<>> /\ result = "none"
       /\ executed = <<"wp_info", "ssh_test", "wp_is_installed_local",
                       "wp_is_installed_remote">>
       /\ exit_code = -1 /\ failures = 0 /\ failed = {} /\ raised = "none"
       /\ interrupted = FALSE /\ prompts = <<>> /\ cached_password = FALSE
       /\ \E t \in 0..MaxClock,
             l \in {NoDir} \cup { [present |-> TRUE, files |-> fs] : fs \in SUBSET Files },
             e \in {NoEntry} \cup
                   { [present |-> TRUE, files |-> Files, nested |-> n] :
                        n \in {NoDir, [present |-> TRUE, files |-> Files]} } :
             backups = [NoBackups EXCEPT !.latest = l, !.clock = t, !.archives[t] = e]
       /\ sudo = NoCall
       /\ paths = NoPaths
       /\ rsync_proc = NoProcess

SpecPreflight == InitPreflight /\ [][NextPreflight]_vars

-----------------------------------------------------------------------------
(* SSHManager.execute_as_sudo_user(), command execution by command           *)
(* execution, over the calls one caller makes in a row.                      *)

\* Nothing of the run changes during the call but the command collector.
CallerUnchanged ==
    UNCHANGED <<args, config, env, direction, dry_run, pc, callsite, db_file, calls,
                executed, result, exit_code, failures, failed, raised, interrupted, backups,
                paths, rsync_proc>>

\* One command execution of the call: what was run, how it was authorised
\* ("key": the identity's SSH key alone), and what it gave.
Ran(what, how, outcome) == [run |-> what, with |-> how, outcome |-> outcome]

\* The call returns (success, output).
SudoReturn(success, ran) ==
    sudo' = [sudo EXCEPT !.pc = "returned", !.tried = @ \o ran,
                         !.result = IF success THEN "True" ELSE "False"]

\* The call goes on at `next` after the executions `ran`.
SudoGoto(next, ran) == sudo' = [sudo EXCEPT !.pc = next, !.tried = @ \o ran]

\* A caller invokes execute_as_sudo_user(command, sudo_password=...): without
\* ssh.sudo.user the call is execute_remote_command("sudo ..."); with a command
\* collector the command is recorded, in a dry run it is only printed.
execute_as_sudo_user ==
    /\ sudo.pc \in {"idle", "returned"}
    /\ sudo.calls < MaxCalls
    /\ LET entered == [sudo EXCEPT !.calls = @ + 1, !.tried = <<>>, !.result = "none",
                                   !.sudo_password = sudo.supplied]
       IN IF ~config.sudo_user
          THEN /\ sudo' = [entered EXCEPT !.pc = "fallback"]
               /\ commands' = commands
          ELSE IF args.command_only
          THEN /\ sudo' = [entered EXCEPT !.pc = "returned", !.result = "True"]
               /\ commands' = Append(commands, "as_sudo_user")
          ELSE IF dry_run
          THEN /\ sudo' = [entered EXCEPT !.pc = "returned", !.result = "True"]
               /\ commands' = commands
          ELSE /\ sudo' = [entered EXCEPT !.pc = "direct"]
               /\ commands' = commands
    /\ NoPrompt
    /\ CallerUnchanged

\* Variant of the first strategy that goes on to sudo although the direct
\* command succeeded.
direct_attempt_never_enough ==
    /\ sudo.pc = "direct"
    /\ \E outcome \in {"ok", "failed", "raised"} :
         LET ran == <<Ran("direct", "key", outcome)>>
         IN IF outcome = "raised" THEN SudoGoto("fallback", ran)
            ELSE IF sudo.sudo_password THEN SudoGoto("sudo", ran)
            ELSE SudoGoto("probe", ran)
    /\ commands' = commands
    /\ NoPrompt
    /\ CallerUnchanged

\* First strategy: the command as it is, over SSH as the sudo user.  An
\* exception of subprocess.run leads to the handler, which falls back.
direct_attempt ==
    /\ sudo.pc = "direct"
    /\ \E outcome \in {"ok", "failed", "raised"} :
         LET ran == <<Ran("direct", "key", outcome)>>
         IN IF outcome = "ok" THEN SudoReturn(TRUE, ran)
            ELSE IF outcome = "raised" THEN SudoGoto("fallback", ran)
            ELSE IF sudo.sudo_password THEN SudoGoto("sudo", ran)
            ELSE SudoGoto("probe", ran)
    /\ commands' = commands
    /\ NoPrompt
    /\ CallerUnchanged

\* Without a password at hand: the `sudo -n true` probe as the sudo user, then,
\* when it reports PASSWORD, password_manager.get_sudo_password(); no password
\* ends the call with (False, "No password provided").
probe_and_acquire ==
    /\ sudo.pc = "probe"
    /\ \E outcome \in {"NOPASSWD", "PASSWORD", "raised"} :
         LET ran == <<Ran("probe", "key", outcome)>>
         IN CASE outcome = "NOPASSWD" -> SudoGoto("sudo", ran) /\ NoPrompt
              [] outcome = "raised" -> SudoGoto("fallback", ran) /\ NoPrompt
              [] OTHER ->
                   \E route \in {"password", "no_password"} :
                      /\ Acquire(route)
                      /\ IF route = "password"
                         THEN sudo' = [sudo EXCEPT !.pc = "sudo", !.tried = @ \o ran,
                                                   !.sudo_password = TRUE]
                         ELSE SudoReturn(FALSE, ran)
    /\ commands' = commands
    /\ CallerUnchanged

\* Second strategy: `sudo -S command` with the password, or `sudo command`
\* without one, over SSH as the sudo user.
sudo_attempt ==
    /\ sudo.pc = "sudo"
    /\ \E outcome \in {"ok", "failed", "raised"} :
         LET ran == <<Ran("sudo", IF sudo.sudo_password THEN "password" ELSE "nopasswd",
                          outcome)>>
         IN IF outcome = "ok" THEN SudoReturn(TRUE, ran) ELSE SudoGoto("fallback", ran)
    /\ commands' = commands
    /\ NoPrompt
    /\ CallerUnchanged

\* Variant of the third strategy in which an exception of subprocess.run
\* leaves execute_remote_command and the call.
fallback_attempt_uncaught ==
    /\ sudo.pc = "fallback"
    /\ IF args.command_only
       THEN /\ SudoReturn(TRUE, <<>>)
            /\ commands' = Append(commands, "sudo_as_ssh_user")
       ELSE IF dry_run
       THEN /\ SudoReturn(TRUE, <<>>)
            /\ commands' = commands
       ELSE /\ \E outcome \in {"ok", "failed", "raised"} :
                 LET ran == <<Ran("fallback",
                                  IF sudo.sudo_password THEN "password" ELSE "nopasswd",
                                  outcome)>>
                 IN IF outcome = "raised" THEN SudoGoto("propagated", ran)
                    ELSE SudoReturn(outcome = "ok", ran)
            /\ commands' = commands
    /\ NoPrompt
    /\ CallerUnchanged

\* Third strategy: execute_remote_command("sudo command") as the SSH user,
\* with the password when there is one; an exception of subprocess.run is
\* caught there and returned as (False, str(e)).
fallback_attempt ==
    /\ sudo.pc = "fallback"
    /\ IF args.command_only
       THEN /\ SudoReturn(TRUE, <<>>)
            /\ commands' = Append(commands, "sudo_as_ssh_user")
       ELSE IF dry_run
       THEN /\ SudoReturn(TRUE, <<>>)
            /\ commands' = commands
       ELSE /\ \E outcome \in {"ok", "failed", "raised"} :
                 LET ran == <<Ran("fallback",
                                  IF sudo.sudo_password THEN "password" ELSE "nopasswd",
                                  outcome)>>
                 IN SudoReturn(outcome = "ok", ran)
            /\ commands' = commands
    /\ NoPrompt
    /\ CallerUnchanged

NextSudo ==
    \/ execute_as_sudo_user
    \/ direct_attempt
    \/ probe_and_acquire
    \/ sudo_attempt
    \/ fallback_attempt

\* An SSHManager of a push, with or without ssh.sudo.user, with or without
\* --sudo-password, in any mode.
InitSudo ==
    \E a \in ArgsSpace, c \in ConfigSpace, supplied \in BOOLEAN :
       /\ Canonical(a, c, "push")
       /\ ~a.no_backup /\ ~a.skip_final_cleanup /\ ~a.db_only /\ ~a.files_only
       /\ ~a.skip_wp_check /\ ~a.skip_validation
       /\ c.backup_root_resolvable /\ c.validation_enabled /\ ~c.db_backup_enabled
       /\ ~c.plugins /\ ~c.cleanup_files
       /\ Started(a, c, "push", Permissive)
       /\ backups = NoBackups
       /\ sudo = [NoCall EXCEPT !.supplied = supplied]
       /\ paths = NoPaths
       /\ rsync_proc = NoProcess

SpecSudo == InitSudo /\ [][NextSudo]_vars

\* The same program with the user pressing Ctrl-C during the pipeline.
SpecInterrupt == Init /\ [][Next \/ KeyboardInterrupt]_vars

-----------------------------------------------------------------------------
(* Properties.                                                             *)

\* The current call of run_synchronization has returned.
Returned == result # "none"

\* The current call of run_synchronization is the Live pass.
LivePass == callsite = "actual" /\ ~dry_run

\* Position in `calls` of the first invocation of fn (0 when there is none).
FirstCall(fn) ==
    IF fn \in CalledFns
    THEN CHOOSE i \in 1..Len(calls) :
           calls[i].fn = fn /\ \A j \in 1..(i - 1) : calls[j].fn # fn
    ELSE 0

FileFns == { "transfer_files", "set_permissions" }
DatabaseFns ==
    { "export_database", "import_database", "replace_urls", "clear_cache", "manage_plugins" }
FileOps == { "rsync", "rsync_dry_run", "chown", "chmod_dirs", "chmod_files" }
DatabaseOps ==
    { "db_export", "scp_db", "db_backup", "db_reset", "db_import", "search_replace",
      "cache_flush", "plugin_activate", "plugin_deactivate" }

\* C1: when an exception is raised at a step of a Live or DryRun pass, the pass
\* returns failure, and by then maintenance deactivation has been invoked
\* exactly once (by the handler: not at all while the exception is in flight).
C1_ExceptionDeactivatesOnce ==
    (callsite \in {"dry_run", "actual"} /\ raised # "none") =>
        /\ pc = "handler" => Count("deactivate_maintenance_mode") = 0
        /\ Returned => /\ result = "False"
                       /\ exit_code = 1
                       /\ Count("deactivate_maintenance_mode") = 1

\* A Live pass has returned after an exception escaped import_database, that
\* is after maintenance mode was activated.
C1_Witness ==
    /\ LivePass /\ Returned
    /\ raised = "db_import"
    /\ "activate_maintenance_mode" \in CalledFns

\* C2: a Live pass that activated maintenance mode and returned without an
\* exception (at the end, or early from the post-run backup review) invoked a
\* real deactivation exactly once, after the activation.
C2_DeactivatedOnceAfterActivation ==
    (LivePass /\ Returned /\ raised = "none" /\ "activate_maintenance_mode" \in CalledFns) =>
        /\ Count("deactivate_maintenance_mode") = 1
        /\ FirstCall("activate_maintenance_mode") < FirstCall("deactivate_maintenance_mode")
        /\ ~calls[FirstCall("deactivate_maintenance_mode")].dry
        /\ "handle_final_backup_cleanup" \in CalledFns =>
              FirstCall("deactivate_maintenance_mode") < FirstCall("handle_final_backup_cleanup")

\* A Live pass returned early, with failure, from the post-run backup review.
C2_Witness ==
    /\ LivePass /\ Returned
    /\ raised = "none"
    /\ "review" \in failed
    /\ result = "False"

\* C3: a Live pass in which transfer_files reported failure returns failure
\* (exit code 1), and maintenance deactivation is still invoked.
C3_TransferFailureFailsRun ==
    (LivePass /\ pc = "exit" /\ "file_transfer" \in failed) =>
        /\ result = "False"
        /\ exit_code = 1
        /\ "deactivate_maintenance_mode" \in CalledFns

\* C4: a Live pass in which export_database returned no artifact executes none
\* of the later pipeline steps and returns failure.
C4_ExportFailureAborts ==
    (LivePass /\ pc = "exit" /\ "db_export" \in failed) =>
        /\ result = "False"
        /\ CalledFns \cap (FileFns \cup (DatabaseFns \ {"export_database"})
                           \cup {"run_validation_checks"}) = {}

\* C5: a KeyboardInterrupt during a Live pass after maintenance activation gives
\* exit code 1, a deactivation attempt before exit, and no cleanup.
C5_InterruptDeactivates ==
    (interrupted /\ LivePass /\ "activate_maintenance_mode" \in CalledFns) =>
        /\ exit_code = 1
        /\ "deactivate_maintenance_mode" \in CalledFns
        /\ "cleanup" \notin CalledFns

\* C6: in plan-only mode run() executes nothing: no command of any kind and no
\* manager call, on every path, the exception handler included.
C6_PlanOnlyExecutesNothing ==
    args.command_only => (executed = <<>> /\ calls = <<>>)

\* C7: in a DryRun pass no mutating operation is executed on any path, and
\* every manager is called in dry-run mode.
C7_DryRunMutatesNothing ==
    callsite = "dry_run" =>
        /\ Filter(executed, MutatingOps) = <<>>
        /\ \A i \in 1..Len(calls) : calls[i].dry

\* C8: the mutating operations recorded by plan-only are, in count and order,
\* those a Live run of the same invocation executes when every command succeeds.
C8_PlanMatchesLive ==
    (LivePass /\ pc = "exit" /\ result = "True" /\ failed = {} /\ ~PlanRaises) =>
        Filter(executed, MutatingOps) = Filter(PlanCommands, MutatingOps)

\* C9: a Live or DryRun pass with --db-only never invokes transfer_files or
\* set_permissions, and one with --files-only never invokes export_database,
\* import_database, replace_urls, clear_cache or manage_plugins; the
\* corresponding commands are never executed either.
C9_ScopeFlagsRespected ==
    callsite \in {"dry_run", "actual"} =>
        /\ db_only => (CalledFns \cap FileFns = {} /\ Range(executed) \cap FileOps = {})
        /\ files_only =>
              (CalledFns \cap DatabaseFns = {} /\ Range(executed) \cap DatabaseOps = {})

\* A Live --db-only pass ran to its end with the database imported.
C9_Witness ==
    /\ LivePass /\ pc = "exit" /\ result = "True"
    /\ db_only
    /\ "import_database" \in CalledFns

\* C10: plan-only with --db-only records no file-mirroring or permission
\* command, with --files-only no database, search-replace, cache or plugin
\* command, whatever the configuration, and the plan is produced successfully.
C10_PlanScopeAndSuccess ==
    (args.command_only /\ pc = "exit") =>
        /\ db_only => Range(commands) \cap FileOps = {}
        /\ files_only => Range(commands) \cap DatabaseOps = {}
        /\ result = "True"
        /\ exit_code = 0

\* C11: in non-interactive mode no step asks the operator for anything: the
\* confirmation after the dry run, the keep-or-delete questions about the
\* backup, the database-backup question and the acquisition of the sudo
\* password in set_permissions, _cleanup_destination_files and
\* execute_as_sudo_user all resolve to a default without a read.
\* (prompts records every input() answered by the operator and every
\* getpass() call, which reads from the terminal, not from stdin.)
C11_NonInteractiveNeverPrompts ==
    args.non_interactive => prompts = <<>>

\* Position of the first command of kind op in `executed`, 0 when there is none.
Pos(op) ==
    LET at == { i \in 1..Len(executed) : executed[i] = op }
    IN  IF at = {} THEN 0 ELSE CHOOSE i \in at : \A j \in at : i <= j

\* handle_existing_backup() of this run found files in `latest`: it listed
\* them, before any maintenance activation.
PreflightFoundFiles ==
    /\ Pos("list_latest") # 0
    /\ Pos("maint_on_local") # 0 => Pos("list_latest") < Pos("maint_on_local")

\* C12: in a non-interactive Live push whose preflight finds files in `latest`,
\* the directory is moved to a folder under `archives` (never purged), and the
\* move comes before the activation of maintenance mode on either side and
\* before the database export.
C12_PreflightArchivesBeforeActivation ==
    (LivePass /\ direction = "push" /\ args.non_interactive /\ PreflightFoundFiles) =>
        /\ Pos("mv_latest_to_archive") = Pos("list_latest") + 2
        /\ "rm_latest" \notin Range(executed)
        /\ \A op \in {"maint_on_local", "maint_on_remote", "db_export"} :
              Pos(op) # 0 => Pos("mv_latest_to_archive") < Pos(op)

\* A non-interactive Live push archived `latest`, then activated maintenance
\* mode and exported the database.
C12_Witness ==
    /\ LivePass /\ direction = "push" /\ args.non_interactive /\ PreflightFoundFiles
    /\ "preflight" \notin failed
    /\ Pos("mv_latest_to_archive") # 0
    /\ Pos("mv_latest_to_archive") < Pos("maint_on_remote")
    /\ Pos("maint_on_remote") < Pos("db_export")

C14_ArchivesOnlyGrow ==
    [][\A t \in 0..MaxClock :
          backups.archives[t].present =>
             /\ backups'.archives[t].present
             /\ backups'.archives[t].files = backups.archives[t].files
             /\ backups.archives[t].nested.present =>
                   backups'.archives[t].nested = backups.archives[t].nested]_vars

\* Two archives fell on the same timestamp, the second one moved into the
\* entry of the first, and `latest` was purged and filled again afterwards.
C14_Witness ==
    /\ \E t \in 0..MaxClock :
          /\ backups.archives[t].present
          /\ backups.archives[t].nested.present
          /\ backups.archives[t].nested.files # backups.archives[t].files
    /\ backups.latest.present
    /\ backups.latest.files # {}

\* C15: when the confirmation after a successful dry run is declined, by the
\* operator's "no" or by non-interactive mode, run() returns 0 and
\* run_synchronization is not called a second time: the dry-run pass stays the
\* only one, and non-interactive mode never leads from a dry run to the actual
\* pass.
C15_DeclinedConfirmationExitsZero ==
    /\ (pc = "exit" /\ callsite = "dry_run" /\ result = "True") =>
          /\ exit_code = 0
          /\ dry_run
          /\ \A i \in 1..Len(calls) : calls[i].dry
          /\ Range(executed) \cap MutatingOps = {}
    /\ (callsite = "dry_run" /\ "proceed" \in Range(prompts)) =>
          (pc = "exit" /\ exit_code = 0)
    /\ (args.non_interactive /\ ~args.no_dry_run) => callsite # "actual"

\* The operator answered "no" after a successful dry run.
C15_Witness ==
    /\ pc = "exit" /\ callsite = "dry_run" /\ result = "True" /\ exit_code = 0
    /\ prompts = <<"proceed">>

\* C16: when validate_environment() fails (wp-cli missing, SSH test failing,
\* installation check failing), run() returns 1 and run_synchronization is
\* not invoked: no manager method is called, no maintenance mode is toggled and
\* nothing but the checks themselves was executed.
C16_FailedValidationStopsRun ==
    "environment" \in failed =>
        /\ pc = "exit"
        /\ exit_code = 1
        /\ callsite = "none"
        /\ result = "none"
        /\ calls = <<>>
        /\ commands = <<>>
        /\ Range(executed) \subseteq
              {"wp_info", "ssh_test", "wp_is_installed_local", "wp_is_installed_remote"}

\* The installation check failed after wp --info and the SSH test passed.
C16_Witness ==
    /\ "environment" \in failed
    /\ exit_code = 1
    /\ "wp_is_installed_local" \in Range(executed)

\* C17: run_validation_checks is never called in a dry-run pass, and in a Live
\* pass Step 9 never decides the result: whether the checks pass, fail, or
\* validation is disabled in the configuration without --skip-validation, a
\* pass that returns False does so because of another step.
C17_ValidationNeverChangesResult ==
    /\ Call("run_validation_checks", TRUE) \notin Range(calls)
    /\ (LivePass /\ Returned /\ result = "False") =>
          /\ raised # "validate"
          /\ failed # {"validate"}

\* The backup preflight ended the Live pass: handle_existing_backup() reported
\* failure or raised.
PreflightEndedRun == "preflight" \in failed \/ raised = "preflight"

\* C18 as stated: every Live run that has returned has invoked the activation
\* of maintenance mode.
C18_ActivationInEveryLiveRun ==
    (LivePass /\ Returned) => "activate_maintenance_mode" \in CalledFns

\* C18, amended: every Live pass that gets past the backup preflight begins
\* with the activation of maintenance mode, attempted on the local and then on
\* the remote side whatever the local attempt gave, and a failed activation
\* never ends the pass: the following step is taken and the pass can succeed.
\* A Live pass ended by the preflight invokes no activation.
C18_ActivationAfterPreflight ==
    LivePass =>
        /\ (pc \notin {"preflight", "maint_on"} /\ ~PreflightEndedRun) =>
              /\ Len(calls) >= 1
              /\ LET first == IF calls[1].fn = "handle_existing_backup" THEN 2 ELSE 1
                 IN  /\ Len(calls) >= first
                     /\ calls[first] = Call("activate_maintenance_mode", FALSE)
              /\ LET local == Pos("maint_on_local")
                 IN  /\ local # 0
                     /\ Len(executed) > local
                     /\ executed[local + 1] = "maint_on_remote"
        /\ PreflightEndedRun => "activate_maintenance_mode" \notin CalledFns
        /\ (failed \cap {"activate_local", "activate_remote"} # {}) =>
              /\ pc \notin {"maint_on", "db_export"} =>
                    (files_only \/ "export_database" \in CalledFns \/ raised # "none")
              /\ (Returned /\ failed \subseteq {"activate_local", "activate_remote"}
                     /\ raised = "none") => result = "True"

\* The local activation failed, the remote one was still attempted, and the
\* Live pass went through all its steps and returned True.
C18_Witness ==
    /\ LivePass /\ Returned /\ result = "True"
    /\ failed = {"activate_local"}
    /\ Pos("maint_on_remote") = Pos("maint_on_local") + 1
    /\ "import_database" \in CalledFns
    /\ "transfer_files" \in CalledFns

\* C19: in a Live run, push or pull, every `wp db import` is the command right
\* after a `wp db reset` on the same target, and a reset that failed is still
\* followed by the import.
C19_ResetBeforeEveryImport ==
    /\ \A i \in 1..Len(executed) :
          executed[i] = "db_import" => (i > 1 /\ executed[i - 1] = "db_reset")
    /\ "db_reset" \in failed => "db_import" \in Range(executed)
    /\ "db_import" \in Range(executed) => LivePass

\* The reset failed in a Live pull and the import was run after it.
C19_Witness ==
    /\ LivePass /\ direction = "pull"
    /\ "db_reset" \in failed
    /\ Pos("db_import") = Pos("db_reset") + 1

\* Rank of a command execution in the order direct, probe, sudo, fallback.
Rank(what) ==
    CASE what = "direct" -> 1 [] what = "probe" -> 2 [] what = "sudo" -> 3
      [] what = "fallback" -> 4

\* C20: within one call of execute_as_sudo_user the command executions come in
\* the order direct (as the sudo user), probe, sudo (as the sudo user),
\* fallback (sudo as the SSH user), none of them twice, so at most four; a
\* strategy follows only strategies that failed; the first two need
\* ssh.sudo.user; sudo as the sudo user is passwordless exactly when the probe
\* reported NOPASSWD and uses the supplied or acquired password otherwise; a
\* call that is under way can always take its next step, and a call that has
\* returned has a result.
C20_StrategiesInOrderOnce ==
    LET t == sudo.tried
    IN /\ \A i, j \in 1..Len(t) : i < j => Rank(t[i].run) < Rank(t[j].run)
       /\ Len(t) <= 4
       /\ \A i \in 1..Len(t) :
             /\ (i < Len(t) /\ t[i].run # "probe") => t[i].outcome \in {"failed", "raised"}
             /\ t[i].run \in {"direct", "probe", "sudo"} => config.sudo_user
             /\ t[i].run \in {"probe", "sudo"} => (i > 1 /\ t[1].run = "direct")
             /\ t[i].run = "sudo" =>
                   (t[i].with = "nopasswd" <=>
                       (t[i - 1].run = "probe" /\ t[i - 1].outcome = "NOPASSWD"))
             /\ (t[i].run = "sudo" /\ t[i].with = "password") =>
                   (sudo.supplied \/ cached_password)
       /\ sudo.pc = "returned" => sudo.result \in {"True", "False"}
       /\ sudo.pc \in {"direct", "probe", "sudo", "fallback"} => ENABLED NextSudo

\* A call went through all three strategies: the direct command failed, the
\* probe asked for a password, the operator entered it, sudo as the sudo user
\* failed and the fallback as the SSH user succeeded.
C20_Witness ==
    /\ sudo.pc = "returned" /\ sudo.result = "True"
    /\ Len(sudo.tried) = 4
    /\ sudo.tried[2].outcome = "PASSWORD"
    /\ sudo.tried[3].with = "password"
    /\ sudo.tried[4].run = "fallback"

\* C21: a call of execute_as_sudo_user that reports failure has run the
\* command with sudo as the SSH user (the fallback) as its last command
\* execution, also when no password could be obtained for the sudo user.
C21_FallbackBeforeFailure ==
    (sudo.pc = "returned" /\ sudo.result = "False") =>
        /\ sudo.tried # <<>>
        /\ sudo.tried[Len(sudo.tried)].run = "fallback"

\* C22: within one run the operator is asked for the sudo password at most
\* once, whatever elevated operations follow one another (the pre-sync
\* cleanup, then the permission commands): every later need is served from
\* the password manager's cache.
C22_PromptedAtMostOnce ==
    Len(Filter(prompts, {"sudo_password"})) <= 1

\* The fail-fast options an SSH or scp invocation carries, by what runs it:
\* the three invocations of execute_as_sudo_user as the sudo user ("direct",
\* "probe", "sudo") carry no -o option; execute_remote_command ("fallback")
\* adds BatchMode alone to the piped sudo -S form and both options to the
\* plain form; transfer_file ("scp") and the remote shell given to rsync
\* ("rsync_shell") add both.
SshOptions(what, how) ==
    IF ~args.non_interactive \/ what \in {"direct", "probe", "sudo"} THEN {}
    ELSE IF what = "fallback" /\ how = "password" THEN {"BatchMode"}
    ELSE {"BatchMode", "ConnectTimeout"}

\* C23: in non-interactive mode every remote-shell invocation (both forms of
\* execute_remote_command, the invocations of execute_as_sudo_user,
\* transfer_file, and rsync's remote shell) carries BatchMode and a connect
\* timeout.
C23_NonInteractiveFailsFast ==
    args.non_interactive =>
       /\ \A i \in 1..Len(sudo.tried) :
             {"BatchMode", "ConnectTimeout"} \subseteq
                 SshOptions(sudo.tried[i].run, sudo.tried[i].with)
       /\ \A what \in {"scp", "rsync_shell"} :
             {"BatchMode", "ConnectTimeout"} \subseteq SshOptions(what, "key")

\* The step that follows each of Steps 4 to 8 in run_synchronization.
StepAfter(step) ==
    CASE step = "set_perms" -> "db_import"
      [] step = "db_import" -> "url"
      [] step = "url"       -> "cache"
      [] step = "cache"     -> "plugins"
      [] step = "plugins"   -> "validate"

\* What the run records when a command of Steps 4 to 8 fails.
ToleratedFailures ==
    {"set_perms", "db_upload", "db_import", "db_reset", "url", "cache", "plugins"}

\* C24: in Live mode a command failure in import_database, replace_urls,
\* clear_cache, manage_plugins or set_permissions does not abort the run: the run
\* goes on at the step that follows, returns nothing yet, and a run that saw
\* such a failure has invoked deactivate_maintenance_mode by the time it ends.
C24_StepFailuresDoNotAbort ==
    /\ [][(pc \in {"set_perms", "db_import", "url", "cache", "plugins"}
             /\ ~dry_run /\ failed' \cap ToleratedFailures # failed \cap ToleratedFailures)
          => (pc' = StepAfter(pc) /\ result' = result /\ raised' = raised)]_vars
    /\ []((Returned /\ ~dry_run /\ failed \cap ToleratedFailures # {})
          => Call("deactivate_maintenance_mode", FALSE) \in Range(calls))

\* A Live run in which a URL replacement failed went on through cache clearing,
\* plugin management, deactivation and cleanup, and returned.
C24_Witness ==
    /\ Returned /\ ~dry_run /\ "url" \in failed
    /\ Pos("search_replace") < Pos("cache_flush")
    /\ Pos("cache_flush") < Pos("maint_off_local")
    /\ Call("cleanup", FALSE) \in Range(calls)

\* C25: Step 12 removes the local database artifact and, on push, the remote
\* copy; a failure inside cleanup() (the local removal or a remote command) is
\* only logged: no exception leaves the step and the run still returns True.
C25_CleanupFailureOnlyLogged ==
    [][(pc = "cleanup")
        => /\ raised' = raised /\ pc' # "handler" /\ result' = "True"
           /\ (db_file = "artifact" /\ ~dry_run)
                 => /\ Len(executed') > Len(executed)
                    /\ executed'[Len(executed) + 1] = "rm_local_db_file"
                    /\ (direction = "push" /\ failed' = failed)
                          => Len(executed') >= Len(executed) + 2
                             /\ executed'[Len(executed) + 2] = "rm_remote_db_file"]_vars

\* A Live run whose cleanup failed has returned True.
C25_Witness ==
    /\ Returned /\ ~dry_run /\ "cleanup" \in failed
    /\ executed[Len(executed)] \in {"rm_local_db_file", "rm_remote_db_temp"}
    /\ result = "True" /\ raised = "none"

\* C26: set_permissions is invoked only on a push in Live mode: never on a
\* pull, never in a dry run (or plan-only), never with --db-only.
C26_PermissionsOnlyOnLivePush ==
    \A i \in 1..Len(calls) :
       calls[i].fn = "set_permissions" =>
          /\ direction = "push"
          /\ ~calls[i].dry
          /\ ~args.command_only
          /\ ~db_only

\* A Live push without --db-only has set the permissions after its rsync.
C26_Witness ==
    /\ direction = "push" /\ ~dry_run /\ ~db_only
    /\ Call("set_permissions", FALSE) \in Range(calls)
    /\ Pos("rsync") > 0 /\ Pos("rsync") < Pos("chown")

\* config["no_trash"], the key _build_rsync_options and transfer_files test:
\* neither the command line nor the configuration defaults set it (--no-backup
\* sets config["no_backup"]).
no_trash == FALSE

\* The backup options _build_rsync_options adds to the rsync command line of a
\* configuration with a backup directory.
BackupOptions == IF no_trash THEN {} ELSE {"--backup", "--backup-dir"}

\* C27: with --no-backup the run handles no backup at all: neither the
\* preflight nor the postflight is called, and the rsync invocation carries
\* neither --backup nor --backup-dir (nor is its backup directory created).
C27_NoBackupMeansNoBackupHandling ==
    args.no_backup =>
       /\ CalledFns \cap {"handle_existing_backup", "handle_final_backup_cleanup"} = {}
       /\ "mkdir_backup_dir" \notin Range(executed)
       /\ "rsync" \in Range(executed) => BackupOptions = {}

-----------------------------------------------------------------------------
(* The backup paths: _resolve_backup_root(), _get_latest_backup_path() and    *)
(* _get_archives_path().  A path is the sequence of its tokens: "/", ".." *)
(* and directory names.                                                      *)

\* os.path.isabs()
isabs(p) == p # <<>> /\ p[1] = "/"

\* str.rstrip('/')
RECURSIVE rstrip(_)
rstrip(p) ==
    IF p # <<>> /\ p[Len(p)] = "/" THEN rstrip(SubSeq(p, 1, Len(p) - 1)) ELSE p

\* os.path.dirname(): everything up to the last "/", without trailing slashes
\* unless it consists of slashes only.
dirname(p) ==
    LET slashes == {i \in 1..Len(p) : p[i] = "/"}
        head == IF slashes = {} THEN <<>>
                ELSE SubSeq(p, 1, CHOOSE i \in slashes : \A j \in slashes : j <= i)
    IN IF \E i \in 1..Len(head) : head[i] # "/" THEN rstrip(head) ELSE head

\* os.path.join(a, b)
join(a, b) ==
    IF isabs(b) THEN b
    ELSE IF a = <<>> \/ a[Len(a)] = "/" THEN a \o b
    ELSE a \o <<"/">> \o b

\* The entry of a per-direction backup.directory that belongs to direction d.
DirKey(d) == IF d = "push" THEN "remote" ELSE "local"

\* _is_new_backup_format(): backup.directory is a dict.
is_new_backup_format(cfg) == cfg.directory.kind = "structured"

\* The configured directory before resolution: the entry for the direction
\* (new format; a missing entry gives "../wordpress-sync-backups"), or the
\* string itself (old format; an empty one gives "../.backup").
RawBackupDir(cfg, d) ==
    LET entry == cfg.directory[DirKey(d)]
    IN IF is_new_backup_format(cfg)
       THEN (IF entry = <<"absent">> THEN <<"..", "/", "wordpress-sync-backups">> ELSE entry)
       ELSE (IF entry = <<>> THEN <<"..", "/", ".backup">> ELSE entry)

\* _resolve_backup_root(): an absolute directory as it is, "../x" under the
\* parent of the base path of the direction, anything else under the base path.
resolve_backup_root(cfg, d) ==
    LET backup_dir == RawBackupDir(cfg, d)
        base_path  == IF d = "push" THEN cfg.live ELSE cfg.local
    IN IF isabs(backup_dir) THEN backup_dir
       ELSE IF Len(backup_dir) >= 2 /\ SubSeq(backup_dir, 1, 2) = <<"..", "/">>
       THEN join(dirname(rstrip(base_path)), SubSeq(backup_dir, 3, Len(backup_dir)))
       ELSE join(rstrip(base_path), backup_dir)

\* _get_latest_backup_path()
LatestBackupPath(cfg, d) ==
    IF is_new_backup_format(cfg) THEN join(resolve_backup_root(cfg, d), <<"latest">>)
    ELSE resolve_backup_root(cfg, d)

\* _get_archives_path()
ArchivesPath(cfg, d) ==
    IF is_new_backup_format(cfg) THEN join(resolve_backup_root(cfg, d), <<"archives">>)
    ELSE dirname(LatestBackupPath(cfg, d))

\* Values of backup.directory (or of one of its entries) in a configuration
\* file: absolute or relative, with or without a trailing slash.
DirectoryValues ==
    { <<"/", "backups">>, <<"/", "backups", "/">>, <<"/", "srv", "/", "backups">>,
      <<"..", "/", "trash">>, <<"..", "/", "trash", "/">>, <<"trash">>, <<"trash", "/">> }

\* Configurations of the backup directory: a string (possibly empty) or a dict
\* whose entries are present or missing; paths.live and paths.local follow.
PathsSpace ==
    { c \in [directory : [kind : {"legacy", "structured"},
                          local : DirectoryValues \cup {<<>>, <<"absent">>},
                          remote : DirectoryValues \cup {<<>>, <<"absent">>}],
             live : { <<"/", "www", "/", "live">>, <<"/", "www", "/", "live", "/">> },
             local : { <<"/", "home", "/", "staging">> },
             latest : {NoPath}, archives : {NoPath}] :
        IF c.directory.kind = "legacy"
        THEN c.directory.local = c.directory.remote /\ c.directory.local # <<"absent">>
        ELSE <<>> \notin {c.directory.local, c.directory.remote} }

PathsUnchanged ==
    UNCHANGED <<args, config, env, direction, dry_run, pc, callsite, db_file, calls, executed,
                commands, result, exit_code, failures, failed, raised, interrupted, prompts,
                cached_password, backups, sudo, rsync_proc>>

\* self._get_latest_backup_path() is called.
get_latest_backup_path ==
    /\ paths.latest = NoPath
    /\ paths' = [paths EXCEPT !.latest = LatestBackupPath(paths, direction)]
    /\ PathsUnchanged

\* self._get_archives_path() is called.
get_archives_path ==
    /\ paths.archives = NoPath
    /\ paths' = [paths EXCEPT !.archives = ArchivesPath(paths, direction)]
    /\ PathsUnchanged

NextPaths ==
    \/ get_latest_backup_path
    \/ get_archives_path

\* A WordPressSync of either direction over any configured backup directory.
InitPaths ==
    \E a \in ArgsSpace, c \in ConfigSpace, d \in {"push", "pull"} :
       /\ Canonical(a, c, d) /\ DefaultOptions(a, c)
       /\ a.no_dry_run /\ ~a.skip_wp_check /\ ~a.non_interactive
       /\ Started(a, c, d, Permissive)
       /\ backups = NoBackups
       /\ sudo = NoCall
       /\ paths \in PathsSpace
       /\ rsync_proc = NoProcess

SpecPaths == InitPaths /\ [][NextPaths]_vars

\* The directories a path leads through, from the root.
Components(p) == Filter(p, {p[i] : i \in 1..Len(p)} \ {"/"})

\* C28: with backup.directory a string that resolves to D,
\* _get_latest_backup_path returns D and _get_archives_path the parent of D;
\* with a per-direction backup.directory whose root for the direction
\* resolves to R they return R/latest and R/archives, R being taken from the
\* remote entry on push and from the local entry on pull.
C28_LatestAndArchivesPaths ==
    LET cfg == paths
        root == resolve_backup_root(cfg, direction)
        R == Components(root)
    IN /\ is_new_backup_format(cfg) =>
            /\ root = resolve_backup_root(
                         [cfg EXCEPT !.directory.local = cfg.directory[DirKey(direction)],
                                     !.directory.remote = cfg.directory[DirKey(direction)]],
                         direction)
            /\ paths.latest # NoPath => Components(paths.latest) = R \o <<"latest">>
            /\ paths.archives # NoPath => Components(paths.archives) = R \o <<"archives">>
       /\ ~is_new_backup_format(cfg) =>
            /\ paths.latest # NoPath => paths.latest = root
            /\ paths.archives # NoPath =>
                  Components(paths.archives) = SubSeq(R, 1, Len(R) - 1)

\* The manager methods run_synchronization calls, in order, when every step
\* succeeds, but for set_permissions: its glue reads the direction nowhere else.
PipelineSteps ==
    LET when(cond, fn) == IF cond THEN <<fn>> ELSE <<>>
    IN when(~args.no_backup /\ ~dry_run, "handle_existing_backup")
       \o <<"activate_maintenance_mode">>
       \o when(~files_only, "export_database")
       \o when(~db_only, "transfer_files")
       \o (IF files_only THEN <<>>
           ELSE <<"import_database", "replace_urls", "clear_cache", "manage_plugins">>)
       \o when(~args.skip_validation /\ ~dry_run, "run_validation_checks")
       \o <<"deactivate_maintenance_mode">>
       \o when(~args.no_backup /\ ~args.skip_final_cleanup /\ ~dry_run,
               "handle_final_backup_cleanup")
       \o when(~files_only, "cleanup")

\* The current call of run_synchronization went through without a failure.
CompletedPass ==
    Returned /\ ~args.command_only /\ result = "True" /\ failed = {} /\ raised = "none"

\* The methods the current call of run_synchronization has invoked, in order.
StepsTaken == [i \in 1..Len(calls) |-> calls[i].fn]

\* C29 as stated: a push and a pull of the same configuration and flags go
\* through the same sequence of steps (the one a pull goes through).
C29_SameStepsForPushAndPull ==
    CompletedPass => StepsTaken = PipelineSteps

\* C29, amended: a push and a pull of the same configuration and flags go
\* through the same sequence of steps, except that set_permissions is a step
\* of the Live push (without --db-only) alone.
C29_SameStepsButPermissions ==
    CompletedPass =>
       /\ Filter(StepsTaken, Range(StepsTaken) \ {"set_permissions"}) = PipelineSteps
       /\ "set_permissions" \in Range(StepsTaken)
             <=> (direction = "push" /\ ~dry_run /\ ~db_only)

\* A Live push went through every step a pull goes through, and through
\* set_permissions after transfer_files.
C29_Witness ==
    /\ CompletedPass /\ direction = "push" /\ ~dry_run /\ ~db_only /\ ~files_only
    /\ Len(StepsTaken) = Len(PipelineSteps) + 1
    /\ \E i \in 2..Len(StepsTaken) :
          StepsTaken[i - 1] = "transfer_files" /\ StepsTaken[i] = "set_permissions"

-----------------------------------------------------------------------------
(* The plan of --command-only as text, over invocations at different times.  *)

\* The plan-only records produced at clock t: the name of the database backup
\* file is time.strftime(filename_format) at the moment the plan is made, every
\* other command is built from the configuration and the flags alone.
PlanText(t) ==
    [i \in 1..Len(PlanCommands) |->
        [command |-> PlanCommands[i],
         strftime |-> IF PlanCommands[i] = "db_backup" THEN t ELSE -1]]

\* One invocation with --command-only, start to exit: a fresh CommandCollector
\* receives the plan.
run_command_only ==
    /\ args.command_only
    /\ pc \in {"start", "exit"}
    /\ pc' = "exit"
    /\ commands' = PlanText(backups.clock)
    /\ UNCHANGED <<args, config, env, direction, dry_run, callsite, db_file, calls, executed,
                   result, exit_code, failures, failed, raised, interrupted, prompts,
                   cached_password, backups, sudo, paths, rsync_proc>>

NextPlans ==
    \/ run_command_only
    \/ tick

\* Any --command-only invocation.
InitPlans ==
    \E a \in ArgsSpace, c \in ConfigSpace, d \in {"push", "pull"} :
       /\ Canonical(a, c, d)
       /\ a.command_only
       /\ Started(a, c, d, Permissive)
       /\ backups = NoBackups
       /\ sudo = NoCall
       /\ paths = NoPaths
       /\ rsync_proc = NoProcess

SpecPlans == InitPlans /\ [][NextPlans]_vars

\* C30: a second plan made from the same configuration and flags is identical
\* to the first, whenever it is made.
C30_PlanIndependentOfTime ==
    [][(pc = "exit" /\ pc' = "exit") => commands' = commands]_vars

\* The commands that are WP-CLI invocations (`wp --path=... <subcommand>`).
WpCliOps ==
    { "wp_is_installed_local", "wp_is_installed_remote",
      "maint_on_local", "maint_on_remote", "maint_off_local", "maint_off_remote",
      "db_export", "db_backup", "db_reset", "db_import", "search_replace", "cache_flush",
      "plugin_activate", "plugin_deactivate" }

\* The first form in which a WP-CLI command is issued carries --allow-root:
\* only `core is-installed` is issued without the flag first and repeated with
\* it when that fails; every other command line is built with the flag.
AllowRootAtFirstTry(op) ==
    op \in WpCliOps \ {"wp_is_installed_local", "wp_is_installed_remote"}

\* C31: every WP-CLI invocation is first tried without --allow-root and
\* repeated with the flag only after the form without it has failed.
C31_UnflaggedFormFirst ==
    \A i \in 1..Len(executed) :
       executed[i] \in WpCliOps => ~AllowRootAtFirstTry(executed[i])

\* C32: in Live mode execute_as_sudo_user and the execute_remote_command it
\* falls back to never let an exception out: whatever fails or raises, the call
\* stays inside its strategies and returns a (success, output) pair, with
\* success False when the last command execution failed or raised.
C32_NoExceptionPropagates ==
    /\ sudo.pc \in {"idle", "direct", "probe", "sudo", "fallback", "returned"}
    /\ sudo.pc = "returned" =>
          /\ sudo.result \in {"True", "False"}
          /\ sudo.tried # <<>> =>
                (sudo.result = "True" <=> sudo.tried[Len(sudo.tried)].outcome = "ok")

\* A Live call in which subprocess.run raised as the sudo user and again in
\* the fallback has returned False.
C32_Witness ==
    /\ sudo.pc = "returned" /\ sudo.result = "False"
    /\ Len(sudo.tried) >= 2
    /\ sudo.tried[1].outcome = "raised"
    /\ sudo.tried[Len(sudo.tried)] = Ran("fallback", "nopasswd", "raised")

-----------------------------------------------------------------------------
(* SSHManager.transfer_files(): the rsync subprocess, its two pipes, the two  *)
(* reader threads and the calling thread, step by step.                       *)

\* Lines rsync writes to one stream at most, and lines an OS pipe holds before
\* a write to it blocks.
MaxLines == 2

PipeCapacity == 1

Streams == {"stdout", "stderr"}

\* Nothing else changes while the subprocess runs.
TransferUnchanged ==
    UNCHANGED <<args, config, env, direction, dry_run, pc, callsite, db_file, calls, executed,
                commands, result, exit_code, failures, failed, raised, interrupted, prompts,
                cached_password, backups, sudo, paths>>

\* subprocess.Popen(rsync_cmd, stdout=PIPE, stderr=PIPE): rsync starts running.
Popen ==
    /\ rsync_proc.main = "idle"
    /\ rsync_proc' = [rsync_proc EXCEPT !.main = "start", !.process = "running"]
    /\ TransferUnchanged

\* stdout_thread.start(); stderr_thread.start()
start_threads ==
    /\ rsync_proc.main = "start"
    /\ rsync_proc' = [rsync_proc EXCEPT !.main = "wait",
                                        !.thread = [s \in Streams |-> "reading"]]
    /\ TransferUnchanged

\* rsync writes a line to a stream; the write blocks while the pipe is full.
rsync_writes ==
    /\ rsync_proc.process = "running"
    /\ \E s \in Streams :
         /\ rsync_proc.todo[s] > 0
         /\ rsync_proc.pipe[s] < PipeCapacity
         /\ rsync_proc' = [rsync_proc EXCEPT !.todo[s] = @ - 1, !.pipe[s] = @ + 1]
    /\ TransferUnchanged

\* rsync has written everything and exits, which closes its ends of the pipes.
rsync_exits ==
    /\ rsync_proc.process = "running"
    /\ \A s \in Streams : rsync_proc.todo[s] = 0
    /\ rsync_proc' = [rsync_proc EXCEPT !.process = "exited"]
    /\ TransferUnchanged

\* Variant of the reader in which only the stdout thread reads while rsync
\* runs: stderr is read once the process has exited.
process_stream_stdout_first ==
    /\ \E s \in Streams :
         /\ rsync_proc.thread[s] = "reading"
         /\ s = "stderr" => rsync_proc.process = "exited"
         /\ IF rsync_proc.pipe[s] > 0
            THEN rsync_proc' = [rsync_proc EXCEPT !.pipe[s] = @ - 1, !.lines[s] = @ + 1]
            ELSE /\ rsync_proc.process = "exited"
                 /\ rsync_proc' = [rsync_proc EXCEPT !.thread[s] = "finished"]
    /\ TransferUnchanged

\* process_stream(stream, lines_list) in a reader thread: readline() takes a
\* line from the pipe, blocks on an empty pipe while rsync runs, and returns ''
\* (end of the loop and of the thread) on an empty pipe once rsync has exited.
process_stream ==
    /\ \E s \in Streams :
         /\ rsync_proc.thread[s] = "reading"
         /\ IF rsync_proc.pipe[s] > 0
            THEN rsync_proc' = [rsync_proc EXCEPT !.pipe[s] = @ - 1, !.lines[s] = @ + 1]
            ELSE /\ rsync_proc.process = "exited"
                 /\ rsync_proc' = [rsync_proc EXCEPT !.thread[s] = "finished"]
    /\ TransferUnchanged

\* return_code = process.wait()
process_wait ==
    /\ rsync_proc.main = "wait"
    /\ rsync_proc.process = "exited"
    /\ rsync_proc' = [rsync_proc EXCEPT !.main = "join_stdout"]
    /\ TransferUnchanged

\* stdout_thread.join(), then stderr_thread.join()
join_threads ==
    /\ \E s \in Streams :
         /\ rsync_proc.main = IF s = "stdout" THEN "join_stdout" ELSE "join_stderr"
         /\ rsync_proc.thread[s] = "finished"
         /\ rsync_proc' = [rsync_proc EXCEPT !.thread[s] = "joined",
                              !.main = IF s = "stdout" THEN "join_stderr" ELSE "close"]
    /\ TransferUnchanged

\* process.stdout.close(); process.stderr.close()
close_streams ==
    /\ rsync_proc.main = "close"
    /\ rsync_proc' = [rsync_proc EXCEPT !.main = "return", !.closed = TRUE]
    /\ TransferUnchanged

\* return False when return_code != 0, else return True.
return_result ==
    /\ rsync_proc.main = "return"
    /\ rsync_proc' = [rsync_proc EXCEPT
                         !.main = "returned",
                         !.returned = Append(@, IF rsync_proc.returncode = 0 THEN "True"
                                                ELSE "False")]
    /\ TransferUnchanged

NextTransfer ==
    \/ Popen
    \/ start_threads
    \/ rsync_writes
    \/ rsync_exits
    \/ process_stream
    \/ process_wait
    \/ join_threads
    \/ close_streams
    \/ return_result

\* A Live transfer about to start rsync, which will write some lines to each
\* stream and exit with status 0 or not.
InitTransfer ==
    \E a \in ArgsSpace, c \in ConfigSpace, d \in {"push", "pull"} :
       /\ Canonical(a, c, d) /\ DefaultOptions(a, c)
       /\ a.no_dry_run /\ ~a.skip_wp_check /\ ~a.non_interactive
       /\ Started(a, c, d, Permissive)
       /\ backups = NoBackups
       /\ sudo = NoCall
       /\ paths = NoPaths
       /\ \E out \in 0..MaxLines, err \in 0..MaxLines, code \in {0, 1} :
             rsync_proc = [NoProcess EXCEPT !.todo = [stdout |-> out, stderr |-> err],
                                            !.returncode = code]

\* Every thread and the subprocess get to run.
SpecTransfer == InitTransfer /\ [][NextTransfer]_vars /\ WF_vars(NextTransfer)

\* C33: whatever the interleaving of rsync and the two reader threads, a full
\* pipe never stalls the transfer for good (the step ends), the step returns
\* only after rsync has exited, both readers are joined and both streams are
\* closed, and it returns once: True exactly when the exit status is 0.
C33_ReadersJoinedBeforeResult ==
    /\ [](rsync_proc.returned # <<>> =>
             /\ rsync_proc.process = "exited"
             /\ \A s \in Streams : rsync_proc.thread[s] = "joined" /\ rsync_proc.pipe[s] = 0
             /\ rsync_proc.closed
             /\ rsync_proc.returned =
                   <<IF rsync_proc.returncode = 0 THEN "True" ELSE "False">>)
    /\ <>(rsync_proc.main = "returned")

\* A transfer has returned False after rsync wrote more lines to each stream
\* than a pipe holds, all of which the readers took.
C33_Witness ==
    /\ rsync_proc.main = "returned" /\ rsync_proc.returned = <<"False">>
    /\ \A s \in Streams : rsync_proc.lines[s] = MaxLines /\ MaxLines > PipeCapacity

\* C34: in Live mode the target database is reset only once the artifact has
\* been delivered to the target host: after a failed upload (push) import_database
\* returns before any reset, and after a failed export or download there is no
\* artifact and the import step, with its reset, is skipped.
C34_NoResetWithoutArtifact ==
    "db_reset" \in Range(executed) =>
       /\ db_file = "artifact"
       /\ failed \cap {"db_export", "db_upload"} = {}
       /\ Pos("scp_db") > 0 /\ Pos("scp_db") < Pos("db_reset")

\* A Live push whose upload of the artifact failed has gone on to the end
\* without a reset.
C34_Witness ==
    /\ Returned /\ ~dry_run /\ direction = "push"
    /\ "db_upload" \in failed
    /\ Pos("scp_db") > 0 /\ Pos("db_reset") = 0
    /\ Pos("scp_db") < Pos("maint_off_local")

\* C35: a Live run whose export produced an artifact has called
\* database_manager.cleanup() by the time it returns, whatever the later steps
\* gave: a failed backup review, or an exception in a later step.
C35_CleanupWheneverArtifact ==
    (Returned /\ ~dry_run /\ ~args.command_only /\ db_file = "artifact")
       => Call("cleanup", FALSE) \in Range(calls)

\* SSHManager._get_backup_dir() as _build_rsync_options calls it from __init__:
\* self.direction is not set yet, so backup.directory is returned as it is
\* written, unresolved; a per-direction dict is formatted into the option as a
\* dict, which names no directory.
get_backup_dir(cfg) ==
    IF is_new_backup_format(cfg) THEN <<"{'local': ..., 'remote': ...}">>
    ELSE cfg.directory.local

\* The directory rsync takes --backup-dir=<dir> for: a relative one is taken
\* from the destination directory of the transfer.
RsyncBackupDir(cfg, d) ==
    LET dir == get_backup_dir(cfg)
        dest == IF d = "push" THEN cfg.live ELSE cfg.local
    IN IF isabs(dir) THEN dir ELSE join(rstrip(dest) \o <<"/">>, dir)

\* The directories an absolute path leads through once ".." is followed.
RECURSIVE Resolved(_, _)
Resolved(p, seen) ==
    IF p = <<>> THEN seen
    ELSE IF p[1] = "/" THEN Resolved(Tail(p), seen)
    ELSE IF p[1] = ".." THEN Resolved(Tail(p), SubSeq(seen, 1, Len(seen) - 1))
    ELSE Resolved(Tail(p), Append(seen, p[1]))

\* C36: the directory given to rsync as --backup-dir is the `latest` directory
\* that _get_latest_backup_path names, for a string and for a per-direction
\* backup.directory, on push and on pull.
C36_BackupDirIsLatest ==
    paths.latest # NoPath =>
       Resolved(RsyncBackupDir(paths, direction), <<>>) = Resolved(paths.latest, <<>>)

\* C37: when handle_existing_backup fails in Live mode, run_synchronization
\* returns False at once: maintenance mode is not activated, no pipeline step
\* is executed and no deactivation is issued.
C37_PreflightFailureReturnsAtOnce ==
    "preflight" \in failed =>
       /\ result = "False" /\ pc = "exit" /\ exit_code = 1
       /\ StepsTaken = <<"handle_existing_backup">>
       /\ Range(executed) \cap
             {"maint_on_local", "maint_on_remote", "maint_off_local", "maint_off_remote",
              "db_export", "rsync", "db_reset", "db_import"} = {}

\* A Live run whose preflight found backed up files and failed to archive them
\* has returned False.
C37_Witness ==
    /\ "preflight" \in failed /\ ~dry_run /\ result = "False"
    /\ Pos("mv_latest_to_archive") > 0

\* C38: within one invocation of run() the pipeline is executed in Live mode at
\* most once; with the dry run enabled the Live pass starts only from the
\* confirmation gate that follows a dry-run pass which returned True, and with
\* the operator's acceptance; a dry-run pass that returned False has ended the
\* run with exit code 1 and no Live pass: the only call made outside dry-run
\* mode is the deactivation of the exception handler.
C38_LiveAtMostOnceAfterAcceptedDryRun ==
    /\ [][ /\ (callsite = "actual") =>
                 (callsite' = "actual" /\ (pc' = "preflight" => pc = "preflight"))
           /\ (callsite # "actual" /\ callsite' = "actual") =>
                 \/ callsite = "none" /\ pc = "validate_environment" /\ ~dry_run /\ ~dry_run'
                 \/ /\ callsite = "dry_run" /\ pc = "confirm" /\ result = "True"
                    /\ dry_run /\ ~dry_run'
                    /\ ~args.non_interactive
                    /\ prompts' = Append(prompts, "proceed")
           /\ (callsite = "dry_run" /\ result = "False") =>
                 (callsite' = "dry_run" /\ result' = "False" /\ pc' = "exit")
         ]_vars
    /\ []((callsite = "dry_run" /\ result = "False") =>
             (/\ pc = "exit" /\ exit_code = 1 /\ dry_run
              /\ \A i \in 1..Len(calls) :
                    calls[i].dry \/ (raised # "none" /\ i = Len(calls)
                                     /\ calls[i].fn = "deactivate_maintenance_mode")
              /\ Range(executed) \cap {"db_export", "rsync", "db_reset", "db_import"} = {}))

\* The operator accepted a successful dry run and the Live pass that followed
\* has run to its end.
C38_Witness ==
    /\ callsite = "actual" /\ ~dry_run /\ pc = "exit"
    /\ "proceed" \in Range(prompts)
    /\ Pos("rsync") > 0

\* C39: when handle_existing_backup has returned True in a Live run, `latest`
\* holds no file (it is empty or absent), whichever the direction and whichever
\* the decision on the files found there.
C39_LatestEmptyAfterPreflight ==
    (pc = "maint_on" /\ ~dry_run) => backups.latest.files = {}

====
